---- MODULE Spec2Model ----
(***************************************************************************)
(* Model of the reserva-facil API (src/main.py): the FastAPI handlers that *)
(* read and write the PostgreSQL store through one psycopg2 connection per *)
(* call.  The store is the record db (one field per table), holding what   *)
(* is committed.  A handler is a sequence of steps, one per statement it    *)
(* sends to the store; between two statements of one worker the other       *)
(* worker may run.  The store runs READ COMMITTED: a statement sees what is *)
(* committed when it runs and what its own transaction has written.  A      *)
(* write that is the last statement before conn.commit() is one step with   *)
(* the commit: until the commit no other transaction sees the row, and a    *)
(* statement that conflicts with it waits for the commit.                   *)
(***************************************************************************)
EXTENDS Integers, Sequences, FiniteSets, TLC

VARIABLES
    db,     \* the committed content of the store, one field per table
    today,  \* the server's clock: date.today() / datetime.now()
    pc,     \* per worker: "idle", or the statement its handler is about to run
    loc,    \* per worker: the local variables of the handler in flight
    last    \* the outcome of the handler that returned most recently

vars == <<db, today, pc, loc, last>>

\* The worker processes serving requests (uvicorn workers); handlers of
\* different workers interleave at statement boundaries.
Procs == {"w1", "w2"}

----------------------------------------------------------------------------
(* Bounds of the model and constants of the program *)

\* No request is received once PEDIDO holds this many rows.
MaxPedidos == 5

\* The longest run of digits in a document number a body carries.
MaxDocDigits == 15

\* f"{new_number:03d}": the minimum width of the numeric suffix.
PadWidth == 3

----------------------------------------------------------------------------
(* Strings of digits: formatting, parsing, collation *)

RECURSIVE Digits(_)
\* str(n) for n >= 0: the decimal digits, most significant first.
Digits(n) == IF n < 10 THEN <<n>> ELSE Append(Digits(n \div 10), n % 10)

RECURSIVE ParseDigits(_)
\* The number a non-empty string of digits denotes (leading zeros allowed).
ParseDigits(s) ==
    IF Len(s) = 1 THEN s[1]
    ELSE 10 * ParseDigits(SubSeq(s, 1, Len(s) - 1)) + s[Len(s)]

\* int(s): the number, or the ValueError int() raises for the empty string
\* (ok is FALSE).
ParseInt(s) ==
    IF s = <<>>
    THEN [ok |-> FALSE, value |-> 0]
    ELSE [ok |-> TRUE, value |-> ParseDigits(s)]

RECURSIVE StrLess(_, _)
\* a < b in the store's text ordering: character by character, a proper
\* prefix first.
StrLess(a, b) ==
    IF a = <<>> THEN b # <<>>
    ELSE IF b = <<>> THEN FALSE
    ELSE IF Head(a) = Head(b) THEN StrLess(Tail(a), Tail(b))
    ELSE Head(a) < Head(b)

\* f"PED-{current_year}-{new_number:03d}"
MakeId(year, n) ==
    LET s == Digits(n)
        pad == IF Len(s) >= PadWidth THEN 0 ELSE PadWidth - Len(s)
    IN  [year |-> year,
         seq |-> [i \in 1..(pad + Len(s)) |-> IF i <= pad THEN 0 ELSE s[i - pad]]]

\* The value of an id column that holds nothing.
NoId == [year |-> 0, seq |-> <<>>]

----------------------------------------------------------------------------
(* Dates *)

DaysInMonth(y, m) ==
    IF m = 2
    THEN (IF (y % 4 = 0 /\ y % 100 # 0) \/ y % 400 = 0 THEN 29 ELSE 28)
    ELSE IF m \in {4, 6, 9, 11} THEN 30 ELSE 31

NextDay(d) ==
    IF d.day < DaysInMonth(d.year, d.month)
    THEN [d EXCEPT !.day = @ + 1]
    ELSE IF d.month < 12
    THEN [d EXCEPT !.month = @ + 1, !.day = 1]
    ELSE [year |-> d.year + 1, month |-> 1, day |-> 1]

\* The first and the last day of a run: the clock crosses one new year.
FirstDay == [year |-> 2024, month |-> 12, day |-> 31]
LastDay == [year |-> 2025, month |-> 1, day |-> 1]

----------------------------------------------------------------------------
(* The store *)

EmptyDb ==
    [ USUARIO |-> {}, ANALISTA |-> {}, GERENTE |-> {}, PEDIDO |-> {},
      TIPORECURSOFISICO |-> {}, ARMAZEM |-> {}, RECURSOHUMANO |-> {},
      ITEM |-> {}, DOCUMENTODEREQUISITO |-> {}, DOC_TIPORECURSO |-> {},
      DOC_RH |-> {}, EVENTO |-> {}, ALOCACAO |-> {} ]

\* What a statement of a transaction sees: the committed rows and the rows
\* the transaction has inserted, ins holding those per table.
View(d, ins) == [t \in DOMAIN d |-> d[t] \cup ins[t]]

\* conn.commit(): the store as the transaction sees it becomes the stored
\* state.
Commit(d, tx) == tx

\* conn.rollback(): what the transaction wrote is discarded.
Rollback(d, tx) == d

\* SELECT ndoc FROM USUARIO WHERE ndoc = %s
SelectUsuario(d, ndoc) == {u \in d.USUARIO : u.ndoc = ndoc}

\* SELECT IDPEDIDO FROM PEDIDO WHERE IDPEDIDO = %s
SelectPedido(d, id) == {r \in d.PEDIDO : r.idpedido = id}

\* The number of PEDIDO rows assigned to a member of staff.
Orders(d, column, cpf) == Cardinality({r \in d.PEDIDO : r[column] = cpf})

\* get_analyst_min_orders.sql: the analysts with the fewest requests; the
\* statement returns one of them, none when no analyst is registered.
get_analyst_min_orders(d) ==
    {a \in d.ANALISTA :
        \A b \in d.ANALISTA : Orders(d, "analista", a) <= Orders(d, "analista", b)}

\* get_manager_min_orders.sql, likewise for the managers.
get_manager_min_orders(d) ==
    {g \in d.GERENTE :
        \A h \in d.GERENTE : Orders(d, "gerente", g) <= Orders(d, "gerente", h)}

\* insert_pedido.sql: IDPEDIDO is the primary key of PEDIDO.
insert_pedido(tx, row) ==
    IF SelectPedido(tx, row.idpedido) # {}
    THEN [ok |-> FALSE, db |-> tx]
    ELSE [ok |-> TRUE, db |-> [tx EXCEPT !.PEDIDO = @ \cup {row}]]

----------------------------------------------------------------------------
(* Requests and outcomes *)

\* A date column that holds nothing.
NoDate == [year |-> 0, month |-> 0, day |-> 0]

\* ItemCreate, EventoCreate and AlocacaoCreate with every field empty; an
\* Optional field that is None holds "".
NoItem ==
    [ nropatrimonio |-> "", statusitem |-> "", qualidade |-> "", tamanho |-> 0,
      tiporecursofisico |-> "", armazem |-> "" ]

\* UsuarioCreate with every field empty.  ndoc and rg are sequences of
\* characters, since the validator reads inside them; an Optional field that
\* is None holds the empty value of its type.
NoUsuario ==
    [ ndoc |-> <<>>, tipodoc |-> "", email |-> "", nome |-> "",
      datanasc |-> NoDate, rg |-> <<>>, razaosocial |-> "" ]

\* ItemUpdate and TipoRecursoCreate with every field empty (None).
NoItemUpdate ==
    [ statusitem |-> "", qualidade |-> "", tamanho |-> 0,
      tiporecursofisico |-> "", armazem |-> "" ]

\* The fields a request body or path can carry, each empty when unused.
NoArgs ==
    [ id_pedido |-> NoId,
      status_update |-> [status |-> "", analista |-> "", gerente |-> ""],
      body |-> NoUsuario,
      pedido |-> [ usuario |-> "", datainicioproposto |-> NoDate,
                   datafimproposto |-> NoDate ],
      query |-> [ search |-> <<>>, tiporecursofisico |-> "", statusitem |-> "",
                  qualidade |-> "", tamanho |-> "", armazem |-> "" ],
      update |-> NoItemUpdate,
      tipo |-> [idtiporecurso |-> "", nome |-> ""],
      tipos_recurso |-> <<>>,
      recursos_humanos |-> <<>>, id_recurso |-> "", nropatrimonio |-> "",
      item |-> NoItem,
      evento |-> [ nome |-> "", data_inicio |-> NoDate, data_fim |-> NoDate,
                   local |-> "", status |-> "", id_pedido |-> NoId ],
      alocacao |-> [ evento_nome |-> "", evento_data |-> NoDate, item_id |-> "",
                     dia_entrada |-> NoDate, dia_saida |-> NoDate ],
      fault |-> FALSE ]

\* The locals of a handler between two statements: its arguments, the rows
\* create_pedido fetched, the year and the date it read from the clock, the
\* rows its transaction has inserted and not yet committed, and the index of
\* the line a loop of add_requisitos is at.
NoLoc ==
    [ args |-> NoArgs, analista |-> "", gerente |-> "", current_year |-> 0,
      idpedido |-> NoId, datasubmissao |-> NoDate, ins |-> EmptyDb, i |-> 0 ]

\* What a handler leaves behind when it returns: the HTTP status and detail,
\* whether it rolled back / committed, the state of its connection, the id it
\* returned, and the keys of the rows it returned (none unless it lists).
Outcome(op, args, status, detail, rolled, committed, conn, ret) ==
    [ op |-> op, args |-> args, status |-> status, detail |-> detail,
      rolled |-> rolled, committed |-> committed, conn |-> conn, ret |-> ret,
      rows |-> {} ]

NoOutcome == Outcome("none", NoArgs, 0, "", FALSE, FALSE, "none", NoId)


\* A statement after which the handler of worker p goes on: label names its
\* next statement and l holds its locals.
Goes(p, label, l) ==
    /\ pc' = [pc EXCEPT ![p] = label]
    /\ loc' = [loc EXCEPT ![p] = l]
    /\ UNCHANGED <<db, today, last>>

\* The handler of worker p returns or raises: r holds the stored state it
\* leaves and its answer, conn the state of its connection, ret the id it
\* returned.
Returns(p, op, args, r, conn, ret) ==
    /\ db' = r.db
    /\ last' = Outcome(op, args, r.status, r.detail, r.rolled, r.committed, conn, ret)
    /\ pc' = [pc EXCEPT ![p] = "idle"]
    /\ loc' = [loc EXCEPT ![p] = NoLoc]
    /\ UNCHANGED today

\* raise HTTPException(status, detail) inside the try block of a handler
\* whose except clause calls conn.rollback() and raises again.
Raised(d, status, detail) ==
    [db |-> Rollback(d, d), status |-> status, detail |-> detail,
     rolled |-> TRUE, committed |-> FALSE]

\* The check of a condition the handler requires: 200 when it holds, the
\* status and detail of the HTTPException it raises otherwise.
Require(holds, status, detail) ==
    IF holds
    THEN [status |-> 200, detail |-> ""]
    ELSE [status |-> status, detail |-> detail]

\* A statement that fetches a row the handler requires: chk.status is 200
\* when the handler goes on, the status of the HTTPException otherwise.
Check(p, op, args, chk, label, l) ==
    IF chk.status # 200
    THEN Returns(p, op, args, Raised(db, chk.status, chk.detail), "closed", NoId)
    ELSE Goes(p, label, l)

----------------------------------------------------------------------------
(* The validators of the request bodies *)

\* The characters the pattern \d of re matches in a str: the decimal digits
\* of every script (Unicode category Nd), the ten ASCII digits among them.  A
\* character outside ASCII is written by its code point.
DigitChars ==
    { "0", "1", "2", "3", "4", "5", "6", "7", "8", "9", "U+0660", "U+0661",
      "U+0662", "U+0663", "U+0664", "U+0665", "U+0666", "U+0667", "U+0668",
      "U+0669", "U+06F0", "U+06F1", "U+06F2", "U+06F3", "U+06F4", "U+06F5",
      "U+06F6", "U+06F7", "U+06F8", "U+06F9", "U+07C0", "U+07C1", "U+07C2",
      "U+07C3", "U+07C4", "U+07C5", "U+07C6", "U+07C7", "U+07C8", "U+07C9",
      "U+0966", "U+0967", "U+0968", "U+0969", "U+096A", "U+096B", "U+096C",
      "U+096D", "U+096E", "U+096F", "U+09E6", "U+09E7", "U+09E8", "U+09E9",
      "U+09EA", "U+09EB", "U+09EC", "U+09ED", "U+09EE", "U+09EF", "U+0A66",
      "U+0A67", "U+0A68", "U+0A69", "U+0A6A", "U+0A6B", "U+0A6C", "U+0A6D",
      "U+0A6E", "U+0A6F", "U+0AE6", "U+0AE7", "U+0AE8", "U+0AE9", "U+0AEA",
      "U+0AEB", "U+0AEC", "U+0AED", "U+0AEE", "U+0AEF", "U+0B66", "U+0B67",
      "U+0B68", "U+0B69", "U+0B6A", "U+0B6B", "U+0B6C", "U+0B6D", "U+0B6E",
      "U+0B6F", "U+0BE6", "U+0BE7", "U+0BE8", "U+0BE9", "U+0BEA", "U+0BEB",
      "U+0BEC", "U+0BED", "U+0BEE", "U+0BEF", "U+0C66", "U+0C67", "U+0C68",
      "U+0C69", "U+0C6A", "U+0C6B", "U+0C6C", "U+0C6D", "U+0C6E", "U+0C6F",
      "U+0CE6", "U+0CE7", "U+0CE8", "U+0CE9", "U+0CEA", "U+0CEB", "U+0CEC",
      "U+0CED", "U+0CEE", "U+0CEF", "U+0D66", "U+0D67", "U+0D68", "U+0D69",
      "U+0D6A", "U+0D6B", "U+0D6C", "U+0D6D", "U+0D6E", "U+0D6F", "U+0DE6",
      "U+0DE7", "U+0DE8", "U+0DE9", "U+0DEA", "U+0DEB", "U+0DEC", "U+0DED",
      "U+0DEE", "U+0DEF", "U+0E50", "U+0E51", "U+0E52", "U+0E53", "U+0E54",
      "U+0E55", "U+0E56", "U+0E57", "U+0E58", "U+0E59", "U+0ED0", "U+0ED1",
      "U+0ED2", "U+0ED3", "U+0ED4", "U+0ED5", "U+0ED6", "U+0ED7", "U+0ED8",
      "U+0ED9", "U+0F20", "U+0F21", "U+0F22", "U+0F23", "U+0F24", "U+0F25",
      "U+0F26", "U+0F27", "U+0F28", "U+0F29", "U+1040", "U+1041", "U+1042",
      "U+1043", "U+1044", "U+1045", "U+1046", "U+1047", "U+1048", "U+1049",
      "U+1090", "U+1091", "U+1092", "U+1093", "U+1094", "U+1095", "U+1096",
      "U+1097", "U+1098", "U+1099", "U+17E0", "U+17E1", "U+17E2", "U+17E3",
      "U+17E4", "U+17E5", "U+17E6", "U+17E7", "U+17E8", "U+17E9", "U+1810",
      "U+1811", "U+1812", "U+1813", "U+1814", "U+1815", "U+1816", "U+1817",
      "U+1818", "U+1819", "U+1946", "U+1947", "U+1948", "U+1949", "U+194A",
      "U+194B", "U+194C", "U+194D", "U+194E", "U+194F", "U+19D0", "U+19D1",
      "U+19D2", "U+19D3", "U+19D4", "U+19D5", "U+19D6", "U+19D7", "U+19D8",
      "U+19D9", "U+1A80", "U+1A81", "U+1A82", "U+1A83", "U+1A84", "U+1A85",
      "U+1A86", "U+1A87", "U+1A88", "U+1A89", "U+1A90", "U+1A91", "U+1A92",
      "U+1A93", "U+1A94", "U+1A95", "U+1A96", "U+1A97", "U+1A98", "U+1A99",
      "U+1B50", "U+1B51", "U+1B52", "U+1B53", "U+1B54", "U+1B55", "U+1B56",
      "U+1B57", "U+1B58", "U+1B59", "U+1BB0", "U+1BB1", "U+1BB2", "U+1BB3",
      "U+1BB4", "U+1BB5", "U+1BB6", "U+1BB7", "U+1BB8", "U+1BB9", "U+1C40",
      "U+1C41", "U+1C42", "U+1C43", "U+1C44", "U+1C45", "U+1C46", "U+1C47",
      "U+1C48", "U+1C49", "U+1C50", "U+1C51", "U+1C52", "U+1C53", "U+1C54",
      "U+1C55", "U+1C56", "U+1C57", "U+1C58", "U+1C59", "U+A620", "U+A621",
      "U+A622", "U+A623", "U+A624", "U+A625", "U+A626", "U+A627", "U+A628",
      "U+A629", "U+A8D0", "U+A8D1", "U+A8D2", "U+A8D3", "U+A8D4", "U+A8D5",
      "U+A8D6", "U+A8D7", "U+A8D8", "U+A8D9", "U+A900", "U+A901", "U+A902",
      "U+A903", "U+A904", "U+A905", "U+A906", "U+A907", "U+A908", "U+A909",
      "U+A9D0", "U+A9D1", "U+A9D2", "U+A9D3", "U+A9D4", "U+A9D5", "U+A9D6",
      "U+A9D7", "U+A9D8", "U+A9D9", "U+A9F0", "U+A9F1", "U+A9F2", "U+A9F3",
      "U+A9F4", "U+A9F5", "U+A9F6", "U+A9F7", "U+A9F8", "U+A9F9", "U+AA50",
      "U+AA51", "U+AA52", "U+AA53", "U+AA54", "U+AA55", "U+AA56", "U+AA57",
      "U+AA58", "U+AA59", "U+ABF0", "U+ABF1", "U+ABF2", "U+ABF3", "U+ABF4",
      "U+ABF5", "U+ABF6", "U+ABF7", "U+ABF8", "U+ABF9", "U+FF10", "U+FF11",
      "U+FF12", "U+FF13", "U+FF14", "U+FF15", "U+FF16", "U+FF17", "U+FF18",
      "U+FF19", "U+104A0", "U+104A1", "U+104A2", "U+104A3", "U+104A4",
      "U+104A5", "U+104A6", "U+104A7", "U+104A8", "U+104A9", "U+10D30",
      "U+10D31", "U+10D32", "U+10D33", "U+10D34", "U+10D35", "U+10D36",
      "U+10D37", "U+10D38", "U+10D39", "U+11066", "U+11067", "U+11068",
      "U+11069", "U+1106A", "U+1106B", "U+1106C", "U+1106D", "U+1106E",
      "U+1106F", "U+110F0", "U+110F1", "U+110F2", "U+110F3", "U+110F4",
      "U+110F5", "U+110F6", "U+110F7", "U+110F8", "U+110F9", "U+11136",
      "U+11137", "U+11138", "U+11139", "U+1113A", "U+1113B", "U+1113C",
      "U+1113D", "U+1113E", "U+1113F", "U+111D0", "U+111D1", "U+111D2",
      "U+111D3", "U+111D4", "U+111D5", "U+111D6", "U+111D7", "U+111D8",
      "U+111D9", "U+112F0", "U+112F1", "U+112F2", "U+112F3", "U+112F4",
      "U+112F5", "U+112F6", "U+112F7", "U+112F8", "U+112F9", "U+11450",
      "U+11451", "U+11452", "U+11453", "U+11454", "U+11455", "U+11456",
      "U+11457", "U+11458", "U+11459", "U+114D0", "U+114D1", "U+114D2",
      "U+114D3", "U+114D4", "U+114D5", "U+114D6", "U+114D7", "U+114D8",
      "U+114D9", "U+11650", "U+11651", "U+11652", "U+11653", "U+11654",
      "U+11655", "U+11656", "U+11657", "U+11658", "U+11659", "U+116C0",
      "U+116C1", "U+116C2", "U+116C3", "U+116C4", "U+116C5", "U+116C6",
      "U+116C7", "U+116C8", "U+116C9", "U+11730", "U+11731", "U+11732",
      "U+11733", "U+11734", "U+11735", "U+11736", "U+11737", "U+11738",
      "U+11739", "U+118E0", "U+118E1", "U+118E2", "U+118E3", "U+118E4",
      "U+118E5", "U+118E6", "U+118E7", "U+118E8", "U+118E9", "U+11950",
      "U+11951", "U+11952", "U+11953", "U+11954", "U+11955", "U+11956",
      "U+11957", "U+11958", "U+11959", "U+11C50", "U+11C51", "U+11C52",
      "U+11C53", "U+11C54", "U+11C55", "U+11C56", "U+11C57", "U+11C58",
      "U+11C59", "U+11D50", "U+11D51", "U+11D52", "U+11D53", "U+11D54",
      "U+11D55", "U+11D56", "U+11D57", "U+11D58", "U+11D59", "U+11DA0",
      "U+11DA1", "U+11DA2", "U+11DA3", "U+11DA4", "U+11DA5", "U+11DA6",
      "U+11DA7", "U+11DA8", "U+11DA9", "U+16A60", "U+16A61", "U+16A62",
      "U+16A63", "U+16A64", "U+16A65", "U+16A66", "U+16A67", "U+16A68",
      "U+16A69", "U+16AC0", "U+16AC1", "U+16AC2", "U+16AC3", "U+16AC4",
      "U+16AC5", "U+16AC6", "U+16AC7", "U+16AC8", "U+16AC9", "U+16B50",
      "U+16B51", "U+16B52", "U+16B53", "U+16B54", "U+16B55", "U+16B56",
      "U+16B57", "U+16B58", "U+16B59", "U+1D7CE", "U+1D7CF", "U+1D7D0",
      "U+1D7D1", "U+1D7D2", "U+1D7D3", "U+1D7D4", "U+1D7D5", "U+1D7D6",
      "U+1D7D7", "U+1D7D8", "U+1D7D9", "U+1D7DA", "U+1D7DB", "U+1D7DC",
      "U+1D7DD", "U+1D7DE", "U+1D7DF", "U+1D7E0", "U+1D7E1", "U+1D7E2",
      "U+1D7E3", "U+1D7E4", "U+1D7E5", "U+1D7E6", "U+1D7E7", "U+1D7E8",
      "U+1D7E9", "U+1D7EA", "U+1D7EB", "U+1D7EC", "U+1D7ED", "U+1D7EE",
      "U+1D7EF", "U+1D7F0", "U+1D7F1", "U+1D7F2", "U+1D7F3", "U+1D7F4",
      "U+1D7F5", "U+1D7F6", "U+1D7F7", "U+1D7F8", "U+1D7F9", "U+1D7FA",
      "U+1D7FB", "U+1D7FC", "U+1D7FD", "U+1D7FE", "U+1D7FF", "U+1E140",
      "U+1E141", "U+1E142", "U+1E143", "U+1E144", "U+1E145", "U+1E146",
      "U+1E147", "U+1E148", "U+1E149", "U+1E2F0", "U+1E2F1", "U+1E2F2",
      "U+1E2F3", "U+1E2F4", "U+1E2F5", "U+1E2F6", "U+1E2F7", "U+1E2F8",
      "U+1E2F9", "U+1E950", "U+1E951", "U+1E952", "U+1E953", "U+1E954",
      "U+1E955", "U+1E956", "U+1E957", "U+1E958", "U+1E959", "U+1FBF0",
      "U+1FBF1", "U+1FBF2", "U+1FBF3", "U+1FBF4", "U+1FBF5", "U+1FBF6",
      "U+1FBF7", "U+1FBF8", "U+1FBF9" }

\* re.sub(r'\D', '', s): the digits of s, in order.
digits_only(s) == SelectSeq(s, LAMBDA ch : ch \in DigitChars)

\* a < b for two dates.
DateLess(a, b) ==
    \/ a.year < b.year
    \/ a.year = b.year /\ a.month < b.month
    \/ a.year = b.year /\ a.month = b.month /\ a.day < b.day

\* (a.month, a.day) < (b.month, b.day): tuples compare item by item.
MonthDayLess(a, b) ==
    \/ a.month < b.month
    \/ a.month = b.month /\ a.day < b.day

\* The age without the correction for a birthday still to come this year.
age_years_only(now, datanasc) == now.year - datanasc.year

\* today.year - datanasc.year - ((today.month, today.day) <
\* (datanasc.month, datanasc.day)), the comparison counting as 1 when true.
age(now, datanasc) ==
    now.year - datanasc.year - (IF MonthDayLess(now, datanasc) THEN 1 ELSE 0)

\* check_fields measuring the document number as typed, separators included.
check_fields_unstripped(u, now) ==
    LET rgd == digits_only(u.rg)
    IN  IF u.tipodoc \notin {"CPF", "CNPJ"}
        THEN [ok |-> FALSE, detail |-> "tipodoc"]
        ELSE IF u.tipodoc = "CPF" /\ Len(u.ndoc) # 11
        THEN [ok |-> FALSE, detail |-> "cpf"]
        ELSE IF u.tipodoc = "CPF" /\ u.nome = ""
        THEN [ok |-> FALSE, detail |-> "nome"]
        ELSE IF u.tipodoc = "CPF" /\ u.rg # <<>> /\ ~(7 <= Len(rgd) /\ Len(rgd) <= 9)
        THEN [ok |-> FALSE, detail |-> "rg"]
        ELSE IF u.tipodoc = "CNPJ" /\ Len(u.ndoc) # 14
        THEN [ok |-> FALSE, detail |-> "cnpj"]
        ELSE IF u.tipodoc = "CNPJ" /\ u.razaosocial = ""
        THEN [ok |-> FALSE, detail |-> "razaosocial"]
        ELSE IF u.datanasc # NoDate /\ age(now, u.datanasc) < 18
        THEN [ok |-> FALSE, detail |-> "idade"]
        ELSE [ok |-> TRUE, detail |-> ""]

\* UsuarioCreate.check_fields: the first ValueError it raises, if any.
check_fields(u, now) ==
    LET nd == digits_only(u.ndoc)
        rgd == digits_only(u.rg)
    IN  IF u.tipodoc \notin {"CPF", "CNPJ"}
        THEN [ok |-> FALSE, detail |-> "tipodoc"]
        ELSE IF u.tipodoc = "CPF" /\ Len(nd) # 11
        THEN [ok |-> FALSE, detail |-> "cpf"]
        ELSE IF u.tipodoc = "CPF" /\ u.nome = ""
        THEN [ok |-> FALSE, detail |-> "nome"]
        ELSE IF u.tipodoc = "CPF" /\ u.rg # <<>> /\ ~(7 <= Len(rgd) /\ Len(rgd) <= 9)
        THEN [ok |-> FALSE, detail |-> "rg"]
        ELSE IF u.tipodoc = "CNPJ" /\ Len(nd) # 14
        THEN [ok |-> FALSE, detail |-> "cnpj"]
        ELSE IF u.tipodoc = "CNPJ" /\ u.razaosocial = ""
        THEN [ok |-> FALSE, detail |-> "razaosocial"]
        ELSE IF u.datanasc # NoDate /\ age(now, u.datanasc) < 18
        THEN [ok |-> FALSE, detail |-> "idade"]
        ELSE [ok |-> TRUE, detail |-> ""]

\* check_dates refusing an end date equal to the start date.
check_dates_strict_end(pedido, now) ==
    LET inicio == pedido.datainicioproposto
        fim == pedido.datafimproposto
    IN  IF inicio # NoDate /\ DateLess(inicio, now)
        THEN [ok |-> FALSE, detail |-> "inicio"]
        ELSE IF inicio # NoDate /\ fim # NoDate /\ ~DateLess(inicio, fim)
        THEN [ok |-> FALSE, detail |-> "fim"]
        ELSE [ok |-> TRUE, detail |-> ""]

\* PedidoCreate.check_dates: the first ValueError it raises, if any.
check_dates(pedido, now) ==
    LET inicio == pedido.datainicioproposto
        fim == pedido.datafimproposto
    IN  IF inicio # NoDate /\ DateLess(inicio, now)
        THEN [ok |-> FALSE, detail |-> "inicio"]
        ELSE IF inicio # NoDate /\ fim # NoDate /\ DateLess(fim, inicio)
        THEN [ok |-> FALSE, detail |-> "fim"]
        ELSE [ok |-> TRUE, detail |-> ""]

----------------------------------------------------------------------------
(* POST /pedidos *)

\* create_pedido_usuario looking at the staff before the user.
create_pedido_usuario_staff_first(d, pedido) ==
    IF d.ANALISTA = {} \/ d.GERENTE = {}
    THEN [status |-> 500, detail |-> "analista"]
    ELSE IF SelectUsuario(d, pedido.usuario) = {}
    THEN [status |-> 404, detail |-> "usuario"]
    ELSE [status |-> 200, detail |-> ""]

\* Step 1 of create_pedido: the user of the body must be stored.
create_pedido_usuario(d, pedido) ==
    Require(SelectUsuario(d, pedido.usuario) # {}, 404, "usuario")

\* next_idpedido reading the first id of the year (ORDER BY ... ASC) instead
\* of the last.
next_idpedido_asc(d, current_year) ==
    LET ids == {r.idpedido : r \in {x \in d.PEDIDO : x.idpedido.year = current_year}}
        first_id == {i \in ids : \A j \in ids : ~StrLess(j.seq, i.seq)}
        last_number == ParseInt((CHOOSE i \in first_id : TRUE).seq)
    IN  IF first_id = {}
        THEN [ok |-> TRUE, id |-> MakeId(current_year, 1)]
        ELSE IF ~last_number.ok
        THEN [ok |-> FALSE, id |-> NoId]
        ELSE [ok |-> TRUE, id |-> MakeId(current_year, last_number.value + 1)]

\* Step 3 of create_pedido: the candidate id, from the last id of the year.
\* ok is FALSE when int() raises ValueError on the suffix of that id.
next_idpedido(d, current_year) ==
    LET ids == {r.idpedido : r \in {x \in d.PEDIDO : x.idpedido.year = current_year}}
        last_id == {i \in ids : \A j \in ids : ~StrLess(i.seq, j.seq)}
        last_number == ParseInt((CHOOSE i \in last_id : TRUE).seq)
    IN  IF last_id = {}
        THEN [ok |-> TRUE, id |-> MakeId(current_year, 1)]
        ELSE IF ~last_number.ok
        THEN [ok |-> FALSE, id |-> NoId]
        ELSE [ok |-> TRUE, id |-> MakeId(current_year, last_number.value + 1)]

\* create_pedido_insert that swallows the failure of the insert and answers
\* as if the row had been stored.
create_pedido_insert_swallow(d, l) ==
    LET row == [ idpedido |-> l.idpedido, status |-> "Em Análise",
                 datasubmissao |-> l.datasubmissao, usuario |-> l.args.pedido.usuario,
                 analista |-> l.analista, gerente |-> l.gerente ]
        ins == insert_pedido(d, row)
    IN  [db |-> Commit(d, ins.db), status |-> 200, detail |-> "",
         rolled |-> FALSE, committed |-> TRUE]

\* create_pedido_insert writing the manager into the analyst's column and the
\* analyst into the manager's.
create_pedido_insert_swapped(d, l) ==
    LET row == [ idpedido |-> l.idpedido, status |-> "Em Análise",
                 datasubmissao |-> l.datasubmissao, usuario |-> l.args.pedido.usuario,
                 analista |-> l.gerente, gerente |-> l.analista ]
        ins == insert_pedido(d, row)
    IN  IF ins.ok
        THEN [db |-> Commit(d, ins.db), status |-> 200, detail |-> "",
              rolled |-> FALSE, committed |-> TRUE]
        ELSE [db |-> Rollback(d, ins.db), status |-> 500, detail |-> "integrity",
              rolled |-> TRUE, committed |-> FALSE]

\* Step 4 of create_pedido and its except/finally clauses: the insert, then
\* commit, or rollback and a 500 on any failure of the store.
create_pedido_insert(d, l) ==
    LET row == [ idpedido |-> l.idpedido, status |-> "Em Análise",
                 datasubmissao |-> l.datasubmissao, usuario |-> l.args.pedido.usuario,
                 analista |-> l.analista, gerente |-> l.gerente ]
        ins == insert_pedido(d, row)
    IN  IF ins.ok
        THEN [db |-> Commit(d, ins.db), status |-> 200, detail |-> "",
              rolled |-> FALSE, committed |-> TRUE]
        ELSE [db |-> Rollback(d, ins.db), status |-> 500, detail |-> "integrity",
              rolled |-> TRUE, committed |-> FALSE]

\* POST /pedidos is received: the framework builds PedidoCreate from the
\* body, which runs check_dates against the clock.  When it raises, the
\* framework answers 422 and create_pedido is not called, so no connection
\* is opened; otherwise it calls the handler with the body.
PostPedidos(p, pedido) ==
    /\ pc[p] = "idle"
    /\ LET val == check_dates(pedido, today)
           args == [NoArgs EXCEPT !.pedido = pedido]
       IN  IF ~val.ok
           THEN /\ last' = Outcome("create_pedido", args, 422, val.detail,
                                   FALSE, FALSE, "none", NoId)
                /\ UNCHANGED <<db, today, pc, loc>>
           ELSE Goes(p, "create_pedido/usuario", [NoLoc EXCEPT !.args = args])

\* SELECT ndoc FROM USUARIO, the first statement of the handler: a missing
\* user raises the 404.
CreatePedidoSelectUsuario(p) ==
    /\ pc[p] = "create_pedido/usuario"
    /\ Check(p, "create_pedido", loc[p].args,
             create_pedido_usuario(db, loc[p].args.pedido),
             "create_pedido/analista", loc[p])

\* get_analyst_min_orders: the statement returns one of the analysts with
\* the fewest requests; no row raises the 500.
CreatePedidoSelectAnalista(p) ==
    /\ pc[p] = "create_pedido/analista"
    /\ IF get_analyst_min_orders(db) = {}
       THEN Returns(p, "create_pedido", loc[p].args, Raised(db, 500, "analista"),
                    "closed", NoId)
       ELSE \E a \in get_analyst_min_orders(db) :
               Goes(p, "create_pedido/gerente", [loc[p] EXCEPT !.analista = a])

\* get_manager_min_orders, likewise.
CreatePedidoSelectGerente(p) ==
    /\ pc[p] = "create_pedido/gerente"
    /\ IF get_manager_min_orders(db) = {}
       THEN Returns(p, "create_pedido", loc[p].args, Raised(db, 500, "gerente"),
                    "closed", NoId)
       ELSE \E g \in get_manager_min_orders(db) :
               Goes(p, "create_pedido/current_year", [loc[p] EXCEPT !.gerente = g])

\* current_year = datetime.now().year: the handler reads the year off the
\* clock, in a step of its own between the two statements around it.
CreatePedidoCurrentYear(p) ==
    /\ pc[p] = "create_pedido/current_year"
    /\ Goes(p, "create_pedido/last_id", [loc[p] EXCEPT !.current_year = today.year])

\* The SELECT of the last id of the year the handler read and the id computed
\* from it; the ValueError of int() is answered by rollback and a 400.
CreatePedidoSelectLastId(p) ==
    /\ pc[p] = "create_pedido/last_id"
    /\ LET new == next_idpedido(db, loc[p].current_year)
       IN  IF ~new.ok
           THEN Returns(p, "create_pedido", loc[p].args,
                        Raised(db, 400, "ValueError"), "closed", NoId)
           ELSE Goes(p, "create_pedido/datasubmissao",
                     [loc[p] EXCEPT !.idpedido = new.id])

\* datasubmissao = date.today(): the handler reads the date off the clock,
\* in a step of its own between the SELECT and the INSERT.
CreatePedidoDataSubmissao(p) ==
    /\ pc[p] = "create_pedido/datasubmissao"
    /\ Goes(p, "create_pedido/insert", [loc[p] EXCEPT !.datasubmissao = today])

\* The INSERT of the row with the date the handler read, and the commit, to
\* the return of the handler.
CreatePedidoInsert(p) ==
    /\ pc[p] = "create_pedido/insert"
    /\ LET r == create_pedido_insert(db, loc[p])
       IN  Returns(p, "create_pedido", loc[p].args, r, "closed",
                   IF r.status = 200 THEN loc[p].idpedido ELSE NoId)

\* The clock passes midnight.
AdvanceDay ==
    /\ today # LastDay
    /\ today' = NextDay(today)
    /\ UNCHANGED <<db, pc, loc, last>>

----------------------------------------------------------------------------
(* The requests of a run *)

\* PedidoCreate of a user, without proposed dates.
PedidoOf(u) == [NoArgs.pedido EXCEPT !.usuario = u]

Usuarios == {"u1", "u9"}

\* The request ids a run names: one stored request and one that is not.
ReqPedidoIds == {MakeId(2024, 7), MakeId(2024, 9)}

\* The PEDIDO rows earlier runs left behind: <<year, number>> of each id.
SeedPedidos ==
    { {},
      {<<2024, 7>>},
      {<<2024, 3>>, <<2024, 7>>, <<2023, 50>>},
      {<<2024, 998>>} }

SeedRow(s) ==
    [ idpedido |-> MakeId(s[1], s[2]), status |-> "Em Análise",
      datasubmissao |-> [year |-> s[1], month |-> 1, day |-> 1],
      usuario |-> "u1", analista |-> "a1", gerente |-> "g1" ]

InitPedido ==
    /\ \E A \in {{}, {"a1"}, {"a1", "a2"}}, G \in {{}, {"g1"}}, seed \in SeedPedidos :
          db = [EmptyDb EXCEPT
                  !.USUARIO = {[ndoc |-> "u1", email |-> "u1@x"]},
                  !.ANALISTA = A, !.GERENTE = G,
                  !.PEDIDO = IF A = {} \/ G = {} THEN {}
                             ELSE {SeedRow(s) : s \in seed}]
    /\ today = FirstDay
    /\ pc = [p \in Procs |-> "idle"]
    /\ loc = [p \in Procs |-> NoLoc]
    /\ last = NoOutcome

\* POST /pedidos is received by a free worker while PEDIDO holds fewer than
\* MaxPedidos rows.
NextPedido ==
    \/ \E p \in Procs, u \in Usuarios :
          /\ Cardinality(db.PEDIDO) < MaxPedidos
          /\ PostPedidos(p, PedidoOf(u))
    \/ \E p \in Procs : CreatePedidoSelectUsuario(p)
    \/ \E p \in Procs : CreatePedidoSelectAnalista(p)
    \/ \E p \in Procs : CreatePedidoSelectGerente(p)
    \/ \E p \in Procs : CreatePedidoCurrentYear(p)
    \/ \E p \in Procs : CreatePedidoSelectLastId(p)
    \/ \E p \in Procs : CreatePedidoDataSubmissao(p)
    \/ \E p \in Procs : CreatePedidoInsert(p)
    \/ AdvanceDay

SpecPedido == InitPedido /\ [][NextPedido]_vars

----------------------------------------------------------------------------
(* POST /usuarios *)

\* insert_usuario.sql: INSERT INTO USUARIO; ndoc is the primary key and
\* email is unique.  Of the seven columns the row keeps the two that some
\* statement reads back.
insert_usuario(d, usuario) ==
    IF \E u \in d.USUARIO : u.ndoc = usuario.ndoc \/ u.email = usuario.email
    THEN [ok |-> FALSE, db |-> d]
    ELSE [ok |-> TRUE,
          db |-> [d EXCEPT !.USUARIO =
                     @ \cup {[ndoc |-> usuario.ndoc, email |-> usuario.email]}]]

\* SELECT email FROM USUARIO WHERE email = %s
SelectEmail(d, email) == {u \in d.USUARIO : u.email = email}

\* POST /usuarios is received: the framework builds UsuarioCreate from the
\* body, which runs check_fields against the clock.  When it raises, the
\* framework answers 422 and create_usuario is not called, so no connection
\* is opened; otherwise it calls the handler with the body.
PostUsuarios(p, usuario) ==
    /\ pc[p] = "idle"
    /\ LET val == check_fields(usuario, today)
           args == [NoArgs EXCEPT !.body = usuario]
       IN  IF ~val.ok
           THEN /\ last' = Outcome("create_usuario", args, 422, val.detail,
                                   FALSE, FALSE, "none", NoId)
                /\ UNCHANGED <<db, today, pc, loc>>
           ELSE Goes(p, "create_usuario/ndoc", [NoLoc EXCEPT !.args = args])

\* SELECT ndoc FROM USUARIO, the first statement of the handler: a stored
\* document number raises the 409.
CreateUsuarioSelectNdoc(p) ==
    /\ pc[p] = "create_usuario/ndoc"
    /\ Check(p, "create_usuario", loc[p].args,
             Require(SelectUsuario(db, loc[p].args.body.ndoc) = {}, 409, "ndoc"),
             "create_usuario/email", loc[p])

\* SELECT email FROM USUARIO: a stored e-mail raises the 409.
CreateUsuarioSelectEmail(p) ==
    /\ pc[p] = "create_usuario/email"
    /\ Check(p, "create_usuario", loc[p].args,
             Require(SelectEmail(db, loc[p].args.body.email) = {}, 409, "email"),
             "create_usuario/insert", loc[p])

\* The INSERT and the commit, to the return of the handler: a refusal of
\* the store is caught by except Exception, rolled back and answered 400.
CreateUsuarioInsert(p) ==
    /\ pc[p] = "create_usuario/insert"
    /\ Returns(p, "create_usuario", loc[p].args,
               LET ins == insert_usuario(db, loc[p].args.body)
               IN  IF ins.ok
                   THEN [db |-> Commit(db, ins.db), status |-> 200, detail |-> "",
                         rolled |-> FALSE, committed |-> TRUE]
                   ELSE [db |-> Rollback(db, ins.db), status |-> 400, detail |-> "integrity",
                         rolled |-> TRUE, committed |-> FALSE], "closed", NoId)

\* The bodies the validator is tried on.  A string of n digits, bare and
\* with separators typed in the middle:
Plain(n) == [i \in 1..n |-> "1"]

Dressed(n) ==
    [i \in 1..(n \div 2) |-> "2"] \o <<".", "-", "/">> \o
    [i \in 1..(n - n \div 2) |-> "3"]

\* No RG, and RGs around the ends of the accepted interval, two of them
\* ending in a digit of another script.
RgStrings ==
    {Plain(n) : n \in {0, 6, 7, 9, 10}} \cup {Dressed(n) : n \in {0, 6, 7, 9, 10}} \cup
    { Plain(6) \o <<"U+0663">>, Plain(9) \o <<"U+0663">> }

\* Every combination of document type, number, name and company name,
\* without RG or birth date; among the numbers, four that end in a digit of
\* another script (ARABIC-INDIC DIGIT THREE, FULLWIDTH DIGIT ONE).
DocBodies ==
    [ ndoc : {Plain(n) : n \in 0..MaxDocDigits} \cup
             {Dressed(n) : n \in 0..MaxDocDigits} \cup
             { Plain(10) \o <<"U+0663">>, Plain(11) \o <<"U+0663">>,
               Plain(13) \o <<"U+FF11">>, Plain(14) \o <<"U+FF11">> },
      tipodoc : {"CPF", "CNPJ", "RG", "cpf"}, email : {"e1"},
      nome : {"", "n1"}, datanasc : {NoDate}, rg : {<<>>},
      razaosocial : {"", "r1"} ]

\* A person and a company, valid but for the RG.
RgBodies ==
    { [NoUsuario EXCEPT !.ndoc = Plain(11), !.tipodoc = "CPF", !.email = "e1",
                        !.nome = "n1", !.rg = rg] : rg \in RgStrings }
    \cup
    { [NoUsuario EXCEPT !.ndoc = Dressed(14), !.tipodoc = "CNPJ", !.email = "e1",
                        !.razaosocial = "r1", !.rg = rg] : rg \in RgStrings }

\* The days the validators run on, leap days and the turn of a year among
\* them.
ValidaDays ==
    { [year |-> 2024, month |-> 2, day |-> 29],
      [year |-> 2026, month |-> 2, day |-> 28],
      [year |-> 2026, month |-> 3, day |-> 1],
      [year |-> 2025, month |-> 12, day |-> 31],
      [year |-> 2026, month |-> 1, day |-> 1],
      [year |-> 2026, month |-> 6, day |-> 15] }

\* Birth dates around the eighteenth birthday of each of those days, an old
\* one, one in the future, and none.
BirthDates ==
    { NoDate,
      [year |-> 1990, month |-> 6, day |-> 15],
      [year |-> 2030, month |-> 1, day |-> 1],
      [year |-> 2006, month |-> 2, day |-> 27],
      [year |-> 2006, month |-> 2, day |-> 28],
      [year |-> 2006, month |-> 3, day |-> 1],
      [year |-> 2006, month |-> 3, day |-> 2],
      [year |-> 2007, month |-> 12, day |-> 30],
      [year |-> 2007, month |-> 12, day |-> 31],
      [year |-> 2008, month |-> 1, day |-> 1],
      [year |-> 2008, month |-> 1, day |-> 2],
      [year |-> 2008, month |-> 2, day |-> 27],
      [year |-> 2008, month |-> 2, day |-> 28],
      [year |-> 2008, month |-> 2, day |-> 29],
      [year |-> 2008, month |-> 3, day |-> 1],
      [year |-> 2008, month |-> 3, day |-> 2],
      [year |-> 2008, month |-> 6, day |-> 14],
      [year |-> 2008, month |-> 6, day |-> 15],
      [year |-> 2008, month |-> 6, day |-> 16] }

\* A person and a company, valid but for the birth date.
AgeBodies ==
    { [NoUsuario EXCEPT !.ndoc = Dressed(11), !.tipodoc = "CPF", !.email = "e1",
                        !.nome = "n1", !.datanasc = d] : d \in BirthDates }
    \cup
    { [NoUsuario EXCEPT !.ndoc = Plain(14), !.tipodoc = "CNPJ", !.email = "e1",
                        !.razaosocial = "r1", !.datanasc = d] : d \in BirthDates }

\* The store holds one user with the document number of every body the
\* validator accepts, so that such a body is answered by the first
\* pre-check.
InitValida ==
    /\ db = [EmptyDb EXCEPT
               !.USUARIO = { [ndoc |-> Plain(11), email |-> "e5"],
                             [ndoc |-> Dressed(11), email |-> "e6"],
                             [ndoc |-> Plain(14), email |-> "e7"],
                             [ndoc |-> Dressed(14), email |-> "e8"],
                             [ndoc |-> Plain(10) \o <<"U+0663">>, email |-> "e9"],
                             [ndoc |-> Plain(13) \o <<"U+FF11">>, email |-> "e10"] }]
    /\ today \in ValidaDays
    /\ pc = [p \in Procs |-> "idle"]
    /\ loc = [p \in Procs |-> NoLoc]
    /\ last = NoOutcome

\* The requests are taken one at a time: a body is received while no
\* request is in flight.  A body with a birth date is received on each of
\* the days; one without, for which the validator does not read the clock,
\* on the last of them.
NextValida ==
    \/ \E p \in Procs, usuario \in AgeBodies :
          /\ \A q \in Procs : pc[q] = "idle"
          /\ PostUsuarios(p, usuario)
    \/ \E p \in Procs, usuario \in DocBodies \cup RgBodies :
          /\ \A q \in Procs : pc[q] = "idle"
          /\ today = [year |-> 2026, month |-> 6, day |-> 15]
          /\ PostUsuarios(p, usuario)
    \/ \E p \in Procs : CreateUsuarioSelectNdoc(p)

SpecValida == InitValida /\ [][NextValida]_vars

InitUsuario ==
    /\ db = EmptyDb
    /\ today = FirstDay
    /\ pc = [p \in Procs |-> "idle"]
    /\ loc = [p \in Procs |-> NoLoc]
    /\ last = NoOutcome

NextUsuario ==
    \/ \E p \in Procs, n \in {Plain(11), Dressed(11), Plain(10)}, e \in {"e1", "e2"} :
          PostUsuarios(p, [NoUsuario EXCEPT !.ndoc = n, !.tipodoc = "CPF",
                                            !.email = e, !.nome = "n1"])
    \/ \E p \in Procs : CreateUsuarioSelectNdoc(p)
    \/ \E p \in Procs : CreateUsuarioSelectEmail(p)
    \/ \E p \in Procs : CreateUsuarioInsert(p)

SpecUsuario == InitUsuario /\ [][NextUsuario]_vars

----------------------------------------------------------------------------
(* POST /pedidos with the dates of its body *)

\* The proposed dates of a body: none, each day the validators run on, one
\* long past and one far ahead.
PedidoDates ==
    ValidaDays \cup
    { NoDate, [year |-> 2020, month |-> 1, day |-> 1],
      [year |-> 2030, month |-> 1, day |-> 1] }

PedidoBodies ==
    [ usuario : {"u9"}, datainicioproposto : PedidoDates,
      datafimproposto : PedidoDates ]

\* No user is stored: a body the validator accepts reaches the lookup of
\* its user and is answered there, on the day it was received or after
\* midnight.
InitDatas ==
    /\ db = EmptyDb
    /\ today \in ValidaDays
    /\ pc = [p \in Procs |-> "idle"]
    /\ loc = [p \in Procs |-> NoLoc]
    /\ last = NoOutcome

\* The requests are taken one at a time, and midnight passes on the days
\* the run starts on.
NextDatas ==
    \/ \E p \in Procs, pedido \in PedidoBodies :
          /\ \A q \in Procs : pc[q] = "idle"
          /\ PostPedidos(p, pedido)
    \/ \E p \in Procs : CreatePedidoSelectUsuario(p)
    \/ today \in ValidaDays /\ AdvanceDay

SpecDatas == InitDatas /\ [][NextDatas]_vars

----------------------------------------------------------------------------
(* PATCH /pedidos/{id_pedido}/status *)

\* update_pedido_status_gerente that accepts any manager.
update_pedido_status_gerente_any(d, status_update) ==
    Require(TRUE, 404, "gerente")

\* SELECT CPF FROM GERENTE WHERE CPF = %s: the manager must be registered.
update_pedido_status_gerente(d, status_update) ==
    Require(status_update.gerente \in d.GERENTE, 404, "gerente")

\* The handler to the SELECT of the analyst.
UpdatePedidoStatusSelectAnalista(p, id_pedido, status_update) ==
    /\ pc[p] = "idle"
    /\ LET args == [NoArgs EXCEPT !.id_pedido = id_pedido,
                                  !.status_update = status_update]
       IN  Check(p, "update_pedido_status", args,
                 Require(status_update.analista \in db.ANALISTA, 404, "analista"),
                 "update_pedido_status/gerente", [NoLoc EXCEPT !.args = args])

\* The SELECT of the manager.
UpdatePedidoStatusSelectGerente(p) ==
    /\ pc[p] = "update_pedido_status/gerente"
    /\ Check(p, "update_pedido_status", loc[p].args,
             update_pedido_status_gerente(db, loc[p].args.status_update),
             "update_pedido_status/update", loc[p])

\* The UPDATE, its rowcount and the commit, to the return of the handler.
\* update_pedido_status.sql: UPDATE PEDIDO SET STATUS, ANALISTA, GERENTE
\* WHERE IDPEDIDO = id_pedido; 404 and rollback when it matched no row.
UpdatePedidoStatusUpdate(p) ==
    /\ pc[p] = "update_pedido_status/update"
    /\ Returns(p, "update_pedido_status", loc[p].args,
               LET su == loc[p].args.status_update
                   hit == SelectPedido(db, loc[p].args.id_pedido)
                   new == {[r EXCEPT !.status = su.status, !.analista = su.analista,
                                     !.gerente = su.gerente] : r \in hit}
                   upd == [db |-> [db EXCEPT !.PEDIDO = (db.PEDIDO \ hit) \cup new],
                           rowcount |-> Cardinality(hit)]
               IN  IF upd.rowcount = 0
                   THEN [db |-> Rollback(db, upd.db), status |-> 404, detail |-> "pedido",
                         rolled |-> TRUE, committed |-> FALSE]
                   ELSE [db |-> Commit(db, upd.db), status |-> 200, detail |-> "",
                         rolled |-> FALSE, committed |-> TRUE],
               "closed", NoId)

\* The ids PATCH is called with: a stored request and the next one POST
\* creates.
StatusPedidoIds == {MakeId(2024, 7), MakeId(2024, 8)}

\* The bodies PATCH is called with: each status, and each way of naming
\* staff that is not registered ("a9", "g9").
StatusUpdates ==
    { [status |-> "Aprovado", analista |-> "a1", gerente |-> "g1"],
      [status |-> "Recusado", analista |-> "a2", gerente |-> "g1"],
      [status |-> "Em Análise", analista |-> "a1", gerente |-> "g1"],
      [status |-> "Aprovado", analista |-> "a9", gerente |-> "g1"],
      [status |-> "Aprovado", analista |-> "a1", gerente |-> "g9"],
      [status |-> "Aprovado", analista |-> "a9", gerente |-> "g9"] }

InitStatus ==
    /\ db = [EmptyDb EXCEPT
                !.USUARIO = {[ndoc |-> "u1", email |-> "u1@x"]},
                !.ANALISTA = {"a1", "a2"}, !.GERENTE = {"g1"},
                !.PEDIDO = {SeedRow(s) : s \in {<<2024, 3>>, <<2024, 7>>,
                                                 <<2023, 50>>, <<2022, 1>>}}]
    /\ today = FirstDay
    /\ pc = [p \in Procs |-> "idle"]
    /\ loc = [p \in Procs |-> NoLoc]
    /\ last = NoOutcome

NextStatus ==
    \/ \E p \in Procs, id \in StatusPedidoIds, su \in StatusUpdates :
          UpdatePedidoStatusSelectAnalista(p, id, su)
    \/ \E p \in Procs : UpdatePedidoStatusSelectGerente(p)
    \/ \E p \in Procs : UpdatePedidoStatusUpdate(p)
    \/ \E p \in Procs :
          /\ Cardinality(db.PEDIDO) < MaxPedidos
          /\ PostPedidos(p, PedidoOf("u1"))
    \/ \E p \in Procs : CreatePedidoSelectUsuario(p)
    \/ \E p \in Procs : CreatePedidoSelectAnalista(p)
    \/ \E p \in Procs : CreatePedidoSelectGerente(p)
    \/ \E p \in Procs : CreatePedidoCurrentYear(p)
    \/ \E p \in Procs : CreatePedidoSelectLastId(p)
    \/ \E p \in Procs : CreatePedidoDataSubmissao(p)
    \/ \E p \in Procs : CreatePedidoInsert(p)

SpecStatus == InitStatus /\ [][NextStatus]_vars

----------------------------------------------------------------------------
(* /items, /tipos-recurso, /eventos, /alocacoes *)

\* SELECT NROPATRIMONIO FROM ITEM WHERE NROPATRIMONIO = %s
SelectItem(d, nropatrimonio) == {i \in d.ITEM : i.nropatrimonio = nropatrimonio}

\* SELECT IDTIPORECURSO FROM TIPORECURSOFISICO WHERE IDTIPORECURSO = %s
SelectTipo(d, id) == {t \in d.TIPORECURSOFISICO : t.idtiporecurso = id}

\* SELECT IDARMAZEM FROM ARMAZEM WHERE IDARMAZEM = %s
SelectArmazem(d, id) == {a \in d.ARMAZEM : a.idarmazem = id}

\* SELECT ... FROM EVENTO WHERE NOMEEVENTOEFETIVO = %s AND DATAINICIOEFETIVO = %s
SelectEvento(d, nome, data) ==
    {e \in d.EVENTO : e.nome = nome /\ e.data_inicio = data}

\* The allocations that reference an item.
AlocacoesOf(d, nropatrimonio) == {a \in d.ALOCACAO : a.item_id = nropatrimonio}

\* insert_item.sql: NROPATRIMONIO is the key of ITEM; its resource type and,
\* when given, its warehouse are foreign keys.
insert_item(tx, item) ==
    IF \/ SelectItem(tx, item.nropatrimonio) # {}
       \/ SelectTipo(tx, item.tiporecursofisico) = {}
       \/ (item.armazem # "" /\ SelectArmazem(tx, item.armazem) = {})
    THEN [ok |-> FALSE, db |-> tx]
    ELSE [ok |-> TRUE, db |-> [tx EXCEPT !.ITEM = @ \cup {item}]]

\* delete_item.sql: ALOCACAO references ITEM, so the store refuses to delete
\* an item that an allocation names.
delete_item_stmt(tx, nropatrimonio) ==
    IF AlocacoesOf(tx, nropatrimonio) # {}
    THEN [ok |-> FALSE, db |-> tx]
    ELSE [ok |-> TRUE, db |-> [tx EXCEPT !.ITEM = @ \ SelectItem(tx, nropatrimonio)]]

\* insert_evento.sql: (name, start date) is the key of EVENTO; the request
\* is a foreign key.
insert_evento(tx, evento) ==
    IF \/ SelectEvento(tx, evento.nome, evento.data_inicio) # {}
       \/ SelectPedido(tx, evento.id_pedido) = {}
    THEN [ok |-> FALSE, db |-> tx]
    ELSE [ok |-> TRUE, db |-> [tx EXCEPT !.EVENTO = @ \cup {evento}]]

\* insert_alocacao.sql: (event, item) is the key of ALOCACAO; the event and
\* the item are foreign keys.
insert_alocacao(tx, alocacao) ==
    IF \/ \E a \in tx.ALOCACAO :
             /\ a.evento_nome = alocacao.evento_nome
             /\ a.evento_data = alocacao.evento_data
             /\ a.item_id = alocacao.item_id
       \/ SelectEvento(tx, alocacao.evento_nome, alocacao.evento_data) = {}
       \/ SelectItem(tx, alocacao.item_id) = {}
    THEN [ok |-> FALSE, db |-> tx]
    ELSE [ok |-> TRUE, db |-> [tx EXCEPT !.ALOCACAO = @ \cup {alocacao}]]

\* update_item.sql: UPDATE ITEM SET each column to the value supplied, a
\* column whose value is NULL keeping what it holds, WHERE NROPATRIMONIO = %s;
\* ITEM references TIPORECURSOFISICO and ARMAZEM.
update_item_stmt(tx, item, nropatrimonio) ==
    LET keep(new, old) == IF new = "" THEN old ELSE new
        upd(r) == [r EXCEPT
                     !.statusitem = keep(item.statusitem, @),
                     !.qualidade = keep(item.qualidade, @),
                     !.tamanho = IF item.tamanho = 0 THEN @ ELSE item.tamanho,
                     !.tiporecursofisico = keep(item.tiporecursofisico, @),
                     !.armazem = keep(item.armazem, @)]
        hit == SelectItem(tx, nropatrimonio)
        new == {upd(r) : r \in hit}
    IN  IF \E r \in new :
              \/ SelectTipo(tx, r.tiporecursofisico) = {}
              \/ (r.armazem # "" /\ SelectArmazem(tx, r.armazem) = {})
        THEN [ok |-> FALSE, db |-> tx]
        ELSE [ok |-> TRUE, db |-> [tx EXCEPT !.ITEM = (@ \ hit) \cup new]]

\* insert_tiporecurso.sql: INSERT INTO TIPORECURSOFISICO; the id is the
\* primary key.
insert_tiporecurso(tx, tipo) ==
    IF SelectTipo(tx, tipo.idtiporecurso) # {}
    THEN [ok |-> FALSE, db |-> tx]
    ELSE [ok |-> TRUE, db |-> [tx EXCEPT !.TIPORECURSOFISICO = @ \cup {tipo}]]

\* delete_tiporecurso.sql: ITEM and the physical requirement lines reference
\* TIPORECURSOFISICO, so the store refuses to delete a type in use.
delete_tiporecurso(tx, id) ==
    IF \/ \E i \in tx.ITEM : i.tiporecursofisico = id
       \/ \E l \in tx.DOC_TIPORECURSO : l.recurso = id
    THEN [ok |-> FALSE, db |-> tx]
    ELSE [ok |-> TRUE,
          db |-> [tx EXCEPT !.TIPORECURSOFISICO = @ \ SelectTipo(tx, id)]]

\* create_item_nropatrimonio that accepts a patrimony number in use.
create_item_nropatrimonio_any(d, item) ==
    Require(TRUE, 409, "nropatrimonio")

\* Step 2 of create_item: the patrimony number must not be stored.
create_item_nropatrimonio(d, item) ==
    Require(SelectItem(d, item.nropatrimonio) = {}, 409, "nropatrimonio")

\* The handler to the SELECT of the resource type; the SELECT of the
\* warehouse follows when the body names one.
CreateItemSelectTipo(p, item) ==
    /\ pc[p] = "idle"
    /\ LET args == [NoArgs EXCEPT !.item = item]
       IN  Check(p, "create_item", args,
                 Require(SelectTipo(db, item.tiporecursofisico) # {},
                         404, "tiporecursofisico"),
                 IF item.armazem # "" THEN "create_item/armazem"
                                      ELSE "create_item/nropatrimonio",
                 [NoLoc EXCEPT !.args = args])

\* The SELECT of the warehouse.
CreateItemSelectArmazem(p) ==
    /\ pc[p] = "create_item/armazem"
    /\ Check(p, "create_item", loc[p].args,
             Require(SelectArmazem(db, loc[p].args.item.armazem) # {}, 404, "armazem"),
             "create_item/nropatrimonio", loc[p])

\* The SELECT of the patrimony number.
CreateItemSelectItem(p) ==
    /\ pc[p] = "create_item/nropatrimonio"
    /\ Check(p, "create_item", loc[p].args,
             create_item_nropatrimonio(db, loc[p].args.item),
             "create_item/insert", loc[p])

\* The INSERT and the commit, to the return of the handler.  The handler has
\* an except clause for HTTPException alone: a failure of the store leaves
\* the try block uncaught, so no rollback is called; finally closes the
\* connection (which drops the transaction) and the framework answers 500.
CreateItemInsert(p) ==
    /\ pc[p] = "create_item/insert"
    /\ Returns(p, "create_item", loc[p].args,
               LET ins == insert_item(db, loc[p].args.item)
               IN  IF ins.ok
                   THEN [db |-> Commit(db, ins.db), status |-> 200, detail |-> "",
                         rolled |-> FALSE, committed |-> TRUE]
                   ELSE [db |-> db, status |-> 500, detail |-> "integrity",
                         rolled |-> FALSE, committed |-> FALSE], "closed", NoId)

\* PUT /items/{nropatrimonio} to the SELECT of the item.
UpdateItemSelectItem(p, nropatrimonio, item) ==
    /\ pc[p] = "idle"
    /\ LET args == [NoArgs EXCEPT !.nropatrimonio = nropatrimonio, !.update = item]
       IN  Check(p, "update_item", args,
                 Require(SelectItem(db, nropatrimonio) # {}, 404, "item"),
                 IF item.tiporecursofisico # "" THEN "update_item/tipo"
                 ELSE IF item.armazem # "" THEN "update_item/armazem"
                 ELSE "update_item/update", [NoLoc EXCEPT !.args = args])

\* The SELECT of the resource type, when the body names one.
UpdateItemSelectTipo(p) ==
    /\ pc[p] = "update_item/tipo"
    /\ Check(p, "update_item", loc[p].args,
             Require(SelectTipo(db, loc[p].args.update.tiporecursofisico) # {},
                     404, "tiporecursofisico"),
             IF loc[p].args.update.armazem # "" THEN "update_item/armazem"
             ELSE "update_item/update",
             loc[p])

\* The SELECT of the warehouse, when the body names one.
UpdateItemSelectArmazem(p) ==
    /\ pc[p] = "update_item/armazem"
    /\ Check(p, "update_item", loc[p].args,
             Require(SelectArmazem(db, loc[p].args.update.armazem) # {}, 404, "armazem"),
             "update_item/update", loc[p])

\* The UPDATE and the commit, to the return of the handler: a refusal of
\* the store is caught by except Exception, rolled back and answered 500.
UpdateItemUpdate(p) ==
    /\ pc[p] = "update_item/update"
    /\ Returns(p, "update_item", loc[p].args,
               LET upd == update_item_stmt(db, loc[p].args.update, loc[p].args.nropatrimonio)
               IN  IF ~upd.ok
                   THEN [db |-> Rollback(db, upd.db), status |-> 500, detail |-> "integrity",
                         rolled |-> TRUE, committed |-> FALSE]
                   ELSE [db |-> Commit(db, upd.db), status |-> 200, detail |-> "",
                         rolled |-> FALSE, committed |-> TRUE],
               "closed", NoId)

\* The DELETE and the commit: the IntegrityError of the delete is answered
\* by rollback and 409; the number of rows deleted is not read.
delete_item_delete(d, nropatrimonio) ==
    LET del == delete_item_stmt(d, nropatrimonio)
    IN  IF ~del.ok
        THEN [db |-> Rollback(d, del.db), status |-> 409, detail |-> "integrity",
              rolled |-> TRUE, committed |-> FALSE]
        ELSE [db |-> Commit(d, del.db), status |-> 200, detail |-> "",
              rolled |-> FALSE, committed |-> TRUE]

\* DELETE /items/{nropatrimonio} to the SELECT of the item.
DeleteItemSelectItem(p, nropatrimonio) ==
    /\ pc[p] = "idle"
    /\ LET args == [NoArgs EXCEPT !.nropatrimonio = nropatrimonio]
       IN  Check(p, "delete_item", args,
                 Require(SelectItem(db, nropatrimonio) # {}, 404, "item"),
                 "delete_item/delete", [NoLoc EXCEPT !.args = args])

\* The DELETE and the commit, to the return of the handler; the number of
\* rows deleted is not read.
DeleteItemDelete(p) ==
    /\ pc[p] = "delete_item/delete"
    /\ Returns(p, "delete_item", loc[p].args,
               delete_item_delete(db, loc[p].args.nropatrimonio), "closed", NoId)

\* POST /tipos-recurso to the SELECT of the id.
CreateTipoRecursoSelectTipo(p, tipo) ==
    /\ pc[p] = "idle"
    /\ LET args == [NoArgs EXCEPT !.tipo = tipo]
       IN  Check(p, "create_tipo_recurso", args,
                 Require(SelectTipo(db, tipo.idtiporecurso) = {}, 409, "tipo"),
                 "create_tipo_recurso/insert", [NoLoc EXCEPT !.args = args])

\* The INSERT and the commit, to the return of the handler: a refusal of
\* the store is caught by except Exception, rolled back and answered 500.
CreateTipoRecursoInsert(p) ==
    /\ pc[p] = "create_tipo_recurso/insert"
    /\ Returns(p, "create_tipo_recurso", loc[p].args,
               LET ins == insert_tiporecurso(db, loc[p].args.tipo)
               IN  IF ~ins.ok
                   THEN [db |-> Rollback(db, ins.db), status |-> 500, detail |-> "integrity",
                         rolled |-> TRUE, committed |-> FALSE]
                   ELSE [db |-> Commit(db, ins.db), status |-> 200, detail |-> "",
                         rolled |-> FALSE, committed |-> TRUE], "closed", NoId)

\* DELETE /tipos-recurso/{id} to the SELECT of the id.
DeleteTipoRecursoSelectTipo(p, id) ==
    /\ pc[p] = "idle"
    /\ LET args == [NoArgs EXCEPT !.id_recurso = id]
       IN  Check(p, "delete_tipo_recurso", args,
                 Require(SelectTipo(db, id) # {}, 404, "tipo"),
                 "delete_tipo_recurso/delete", [NoLoc EXCEPT !.args = args])

\* The DELETE and the commit, to the return of the handler: a refusal of
\* the store is answered by rollback and 409; the number of rows deleted is
\* not read.  The DELETE waits while a requirement line naming the type is
\* inserted and not committed: that transaction holds a lock on the row of
\* the type until it ends.
DeleteTipoRecursoDelete(p) ==
    /\ pc[p] = "delete_tipo_recurso/delete"
    /\ \A q \in Procs \ {p} :
          \A l \in loc[q].ins.DOC_TIPORECURSO : l.recurso # loc[p].args.id_recurso
    /\ Returns(p, "delete_tipo_recurso", loc[p].args,
               LET del == delete_tiporecurso(db, loc[p].args.id_recurso)
               IN  IF ~del.ok
                   THEN [db |-> Rollback(db, del.db), status |-> 409, detail |-> "em uso",
                         rolled |-> TRUE, committed |-> FALSE]
                   ELSE [db |-> Commit(db, del.db), status |-> 200, detail |-> "",
                         rolled |-> FALSE, committed |-> TRUE], "closed", NoId)

\* POST /eventos to the SELECT of the request.  The HTTPException(404)
\* raised for a missing request is an Exception: the handler has no clause
\* for HTTPException, so its except Exception clause catches it, rolls back
\* and raises a 500.
CreateEventoSelectPedido(p, evento) ==
    /\ pc[p] = "idle"
    /\ LET args == [NoArgs EXCEPT !.evento = evento]
       IN  Check(p, "create_evento", args,
                 Require(SelectPedido(db, evento.id_pedido) # {}, 500, "pedido"),
                 "create_evento/insert", [NoLoc EXCEPT !.args = args])

\* The INSERT and the commit, to the return of the handler: an
\* IntegrityError is answered by rollback and 409.
CreateEventoInsert(p) ==
    /\ pc[p] = "create_evento/insert"
    /\ Returns(p, "create_evento", loc[p].args,
               LET ins == insert_evento(db, loc[p].args.evento)
               IN  IF ~ins.ok
                   THEN [db |-> Rollback(db, ins.db), status |-> 409, detail |-> "integrity",
                         rolled |-> TRUE, committed |-> FALSE]
                   ELSE [db |-> Commit(db, ins.db), status |-> 200, detail |-> "",
                         rolled |-> FALSE, committed |-> TRUE], "closed", NoId)

\* POST /alocacoes to the SELECT of the event.  As in create_evento, the
\* HTTPException(404) raised for a missing event or item is caught by
\* except Exception and becomes a 500.
CreateAlocacaoSelectEvento(p, alocacao) ==
    /\ pc[p] = "idle"
    /\ LET args == [NoArgs EXCEPT !.alocacao = alocacao]
       IN  Check(p, "create_alocacao", args,
                 Require(SelectEvento(db, alocacao.evento_nome, alocacao.evento_data) # {},
                         500, "evento"),
                 "create_alocacao/item", [NoLoc EXCEPT !.args = args])

\* The SELECT of the item.
CreateAlocacaoSelectItem(p) ==
    /\ pc[p] = "create_alocacao/item"
    /\ Check(p, "create_alocacao", loc[p].args,
             Require(SelectItem(db, loc[p].args.alocacao.item_id) # {}, 500, "item"),
             "create_alocacao/insert", loc[p])

\* The INSERT and the commit, to the return of the handler: an
\* IntegrityError is answered by rollback and 409.
CreateAlocacaoInsert(p) ==
    /\ pc[p] = "create_alocacao/insert"
    /\ Returns(p, "create_alocacao", loc[p].args,
               LET ins == insert_alocacao(db, loc[p].args.alocacao)
               IN  IF ~ins.ok
                   THEN [db |-> Rollback(db, ins.db), status |-> 409, detail |-> "integrity",
                         rolled |-> TRUE, committed |-> FALSE]
                   ELSE [db |-> Commit(db, ins.db), status |-> 200, detail |-> "",
                         rolled |-> FALSE, committed |-> TRUE], "closed", NoId)

\* The days of the events of a run.
Day1 == [year |-> 2025, month |-> 3, day |-> 1]
Day2 == [year |-> 2025, month |-> 3, day |-> 2]

\* ItemCreate of a patrimony number, a resource type and a warehouse.
ItemOf(n, t, a) ==
    [NoItem EXCEPT !.nropatrimonio = n, !.statusitem = "Disponível",
                   !.tamanho = 1, !.tiporecursofisico = t, !.armazem = a]

\* The events POST /eventos is called with: one event, for a stored request
\* and for a request that is not stored.
Eventos ==
    { [ nome |-> "e1", data_inicio |-> Day1, data_fim |-> Day2, local |-> "l1",
        status |-> "Confirmado", id_pedido |-> id ] : id \in ReqPedidoIds }

\* The allocations POST /alocacoes is called with: each stored item to that
\* event, an item to an event that is never stored, and an item that is
\* never stored.
Alocacoes ==
    { [ evento_nome |-> "e1", evento_data |-> a[1], item_id |-> a[2],
        dia_entrada |-> Day1, dia_saida |-> Day2 ] :
        a \in {<<Day1, "i1">>, <<Day1, "i2">>, <<Day2, "i1">>, <<Day1, "i9">>} }

\* Two items are stored, neither allocated, and no event.
InitInv ==
    /\ db = [EmptyDb EXCEPT
               !.USUARIO = {[ndoc |-> "u1", email |-> "u1@x"]},
               !.ANALISTA = {"a1"}, !.GERENTE = {"g1"},
               !.PEDIDO = {SeedRow(<<2024, 7>>)},
               !.TIPORECURSOFISICO = {[idtiporecurso |-> "t1", nome |-> "n1"]},
               !.ARMAZEM = {[idarmazem |-> "w1", endereco |-> "r1"]},
               !.ITEM = {ItemOf("i1", "t1", ""), ItemOf("i2", "t1", "w1")}]
    /\ today = FirstDay
    /\ pc = [p \in Procs |-> "idle"]
    /\ loc = [p \in Procs |-> NoLoc]
    /\ last = NoOutcome

NextInv ==
    \/ \E p \in Procs, n \in {"i1", "i2"} : DeleteItemSelectItem(p, n)
    \/ \E p \in Procs : DeleteItemDelete(p)
    \/ \E p \in Procs, n \in {"i1", "i2"} :
          UpdateItemSelectItem(p, n, [NoItemUpdate EXCEPT !.qualidade = "Ruim"])
    \/ \E p \in Procs : UpdateItemUpdate(p)
    \/ \E p \in Procs, evento \in Eventos : CreateEventoSelectPedido(p, evento)
    \/ \E p \in Procs : CreateEventoInsert(p)
    \/ \E p \in Procs, alocacao \in Alocacoes : CreateAlocacaoSelectEvento(p, alocacao)
    \/ \E p \in Procs : CreateAlocacaoSelectItem(p)
    \/ \E p \in Procs : CreateAlocacaoInsert(p)

SpecInv == InitInv /\ [][NextInv]_vars

\* The bodies of POST /items: one patrimony number with each registered
\* resource type, with a registered warehouse, with a warehouse that is not
\* registered and with a resource type that is not.
Items ==
    { ItemOf("i1", "t1", ""), ItemOf("i1", "t2", "w1"), ItemOf("i1", "t1", "w9"),
      ItemOf("i1", "t9", "") }

\* The resource types of a run.
Tipos ==
    { [idtiporecurso |-> "t1", nome |-> "n1"],
      [idtiporecurso |-> "t2", nome |-> "n2"] }

InitItem ==
    /\ db = [EmptyDb EXCEPT
               !.TIPORECURSOFISICO = Tipos,
               !.ARMAZEM = {[idarmazem |-> "w1", endereco |-> "r1"]}]
    /\ today = FirstDay
    /\ pc = [p \in Procs |-> "idle"]
    /\ loc = [p \in Procs |-> NoLoc]
    /\ last = NoOutcome

NextItem ==
    \/ \E p \in Procs, item \in Items : CreateItemSelectTipo(p, item)
    \/ \E p \in Procs : CreateItemSelectArmazem(p)
    \/ \E p \in Procs : CreateItemSelectItem(p)
    \/ \E p \in Procs : CreateItemInsert(p)
    \/ \E p \in Procs,
          item \in { NoItemUpdate,
                     [NoItemUpdate EXCEPT !.tiporecursofisico = "t2"],
                     [NoItemUpdate EXCEPT !.tiporecursofisico = "t9"],
                     [NoItemUpdate EXCEPT !.armazem = "w1"],
                     [NoItemUpdate EXCEPT !.tiporecursofisico = "t1", !.armazem = "w9"] } :
          UpdateItemSelectItem(p, "i1", item)
    \/ \E p \in Procs : UpdateItemSelectTipo(p)
    \/ \E p \in Procs : UpdateItemSelectArmazem(p)
    \/ \E p \in Procs : UpdateItemUpdate(p)
    \/ \E p \in Procs : DeleteItemSelectItem(p, "i1")
    \/ \E p \in Procs : DeleteItemDelete(p)
    \/ \E p \in Procs, tipo \in Tipos : CreateTipoRecursoSelectTipo(p, tipo)
    \/ \E p \in Procs : CreateTipoRecursoInsert(p)
    \/ \E p \in Procs, id \in {"t1", "t2"} : DeleteTipoRecursoSelectTipo(p, id)
    \/ \E p \in Procs : DeleteTipoRecursoDelete(p)

SpecItem == InitItem /\ [][NextItem]_vars

----------------------------------------------------------------------------
(* /pedidos/{id_pedido}/requisitos *)

\* SELECT ... FROM TIPORECURSOFISICO WHERE IDTIPORECURSO = %s, and
\* SELECT ... FROM RECURSOHUMANO WHERE NOMEPROFISSAO = %s
SelectRecurso(tx, table, id) ==
    IF table = "DOC_TIPORECURSO"
    THEN {t \in tx.TIPORECURSOFISICO : t.idtiporecurso = id}
    ELSE {h \in tx.RECURSOHUMANO : h.nomeprofissao = id}

\* insert_doc_tiporecurso.sql / insert_doc_rh.sql: (document, resource) is
\* the key of a requirement line, and the resource is a foreign key.
insert_doc_line(tx, table, id_documento, item) ==
    IF \/ \E r \in tx[table] : r.documento = id_documento /\ r.recurso = item.id
       \/ SelectRecurso(tx, table, item.id) = {}
    THEN [ok |-> FALSE, db |-> tx]
    ELSE [ok |-> TRUE,
          db |-> [tx EXCEPT ![table] = @ \cup
                     {[documento |-> id_documento, recurso |-> item.id,
                       qtd |-> item.qtd]}]]

\* The list of lines a table holds the lines of.
LinesOf(args, table) ==
    IF table = "DOC_TIPORECURSO" THEN args.tipos_recurso ELSE args.recursos_humanos

\* The statement that follows line i of a for-loop of add_requisitos (the
\* INSERT of the document counting as line 0 of the first loop): the SELECT
\* of the next line of the loop, of the first line of the second loop, or
\* the commit.
add_requisitos_next(args, table, i) ==
    IF i < Len(LinesOf(args, table))
    THEN [ label |-> IF table = "DOC_TIPORECURSO" THEN "add_requisitos/tipo"
                     ELSE "add_requisitos/profissao",
           i |-> i + 1 ]
    ELSE IF table = "DOC_TIPORECURSO" /\ args.recursos_humanos # <<>>
    THEN [label |-> "add_requisitos/profissao", i |-> 1]
    ELSE [label |-> "add_requisitos/commit", i |-> 0]

\* add_requisitos_conflict committing what the call had inserted.
add_requisitos_conflict_partial(d, tx, table) ==
    [db |-> Commit(d, tx), status |-> 409,
     detail |-> IF table = "DOC_TIPORECURSO" THEN "tipos_recurso" ELSE "recursos_humanos",
     rolled |-> FALSE, committed |-> TRUE]

\* The IntegrityError of the INSERT of a line: conn.rollback() and the 409,
\* which the outer except clause rolls back and raises again.
add_requisitos_conflict(d, tx, table) ==
    [db |-> Rollback(d, tx), status |-> 409,
     detail |-> IF table = "DOC_TIPORECURSO" THEN "tipos_recurso" ELSE "recursos_humanos",
     rolled |-> TRUE, committed |-> FALSE]

\* POST /pedidos/{id_pedido}/requisitos to the SELECT of the request.
AddRequisitosSelectPedido(p, id_pedido, requisitos) ==
    /\ pc[p] = "idle"
    /\ LET args == [NoArgs EXCEPT !.id_pedido = id_pedido,
                                  !.tipos_recurso = requisitos.tipos_recurso,
                                  !.recursos_humanos = requisitos.recursos_humanos]
       IN  Check(p, "add_requisitos", args,
                 Require(SelectPedido(db, id_pedido) # {}, 404, "pedido"),
                 "add_requisitos/documento", [NoLoc EXCEPT !.args = args])

\* The INSERT of the requirement document.  It waits while another
\* transaction has inserted the document of the request and not committed.
AddRequisitosInsertDocumento(p) ==
    /\ pc[p] = "add_requisitos/documento"
    /\ \A q \in Procs \ {p} : loc[p].args.id_pedido \notin loc[q].ins.DOCUMENTODEREQUISITO
    /\ LET tx == [View(db, loc[p].ins) EXCEPT
                     !.DOCUMENTODEREQUISITO = @ \cup {loc[p].args.id_pedido}]
           next == add_requisitos_next(loc[p].args, "DOC_TIPORECURSO", 0)
       IN  Goes(p, next.label,
                [loc[p] EXCEPT !.ins = [t \in DOMAIN db |-> tx[t] \ db[t]],
                               !.i = next.i])

\* The SELECT of the resource of line i of a loop: a missing resource raises
\* the 404, and the rollback of the except clause discards what the call
\* inserted.
SelectsRecurso(p, table) ==
    LET item == LinesOf(loc[p].args, table)[loc[p].i]
    IN  Check(p, "add_requisitos", loc[p].args,
              Require(SelectRecurso(View(db, loc[p].ins), table, item.id) # {}, 404,
                      IF table = "DOC_TIPORECURSO" THEN "tipos_recurso" ELSE "recursos_humanos"),
              IF table = "DOC_TIPORECURSO" THEN "add_requisitos/doc_tiporecurso"
              ELSE "add_requisitos/doc_rh",
              loc[p])

\* The transactions that hold, inserted and not committed, the line that
\* worker p's INSERT is about to write: the INSERT waits for each to end.
HoldsLineOf(p, table) ==
    {q \in Procs \ {p} :
        \E r \in loc[q].ins[table] :
            /\ r.documento = loc[p].args.id_pedido
            /\ r.recurso = LinesOf(loc[p].args, table)[loc[p].i].id}

\* The INSERT of line i of a loop, once no other transaction holds the line.
InsertsLine(p, table) ==
    /\ HoldsLineOf(p, table) = {}
    /\ LET item == LinesOf(loc[p].args, table)[loc[p].i]
           tx == View(db, loc[p].ins)
           ins == insert_doc_line(tx, table, loc[p].args.id_pedido, item)
           next == add_requisitos_next(loc[p].args, table, loc[p].i)
       IN  IF ~ins.ok
           THEN Returns(p, "add_requisitos", loc[p].args,
                        add_requisitos_conflict(db, tx, table), "closed", NoId)
           ELSE Goes(p, next.label,
                     [loc[p] EXCEPT !.ins = [t \in DOMAIN db |-> ins.db[t] \ db[t]],
                                    !.i = next.i])

AddRequisitosSelectTipo(p) ==
    /\ pc[p] = "add_requisitos/tipo"
    /\ SelectsRecurso(p, "DOC_TIPORECURSO")

AddRequisitosInsertTipo(p) ==
    /\ pc[p] = "add_requisitos/doc_tiporecurso"
    /\ InsertsLine(p, "DOC_TIPORECURSO")

AddRequisitosSelectProfissao(p) ==
    /\ pc[p] = "add_requisitos/profissao"
    /\ SelectsRecurso(p, "DOC_RH")

AddRequisitosInsertProfissao(p) ==
    /\ pc[p] = "add_requisitos/doc_rh"
    /\ InsertsLine(p, "DOC_RH")

\* Two INSERTs of physical lines that wait for each other: the store ends
\* the wait of one with an error that is no IntegrityError, so the handler's
\* except Exception clause rolls back and raises a 500.
AddRequisitosDeadlock(p) ==
    /\ pc[p] = "add_requisitos/doc_tiporecurso"
    /\ \E q \in HoldsLineOf(p, "DOC_TIPORECURSO") :
          /\ pc[q] = "add_requisitos/doc_tiporecurso"
          /\ p \in HoldsLineOf(q, "DOC_TIPORECURSO")
    /\ Returns(p, "add_requisitos", loc[p].args, Raised(db, 500, "deadlock"),
               "closed", NoId)

\* conn.commit(), to the return of the handler.
AddRequisitosCommit(p) ==
    /\ pc[p] = "add_requisitos/commit"
    /\ Returns(p, "add_requisitos", loc[p].args,
               [db |-> Commit(db, View(db, loc[p].ins)), status |-> 200, detail |-> "",
                rolled |-> FALSE, committed |-> TRUE], "closed", NoId)

\* DELETE /pedidos/{id_pedido}/requisitos/fisico|humano/{id_recurso}: the
\* statement of delete_doc_tiporecurso.sql / delete_doc_rh.sql with its
\* cur.rowcount; 404 and rollback when no row was deleted, commit otherwise.
delete_requisito(d, table, id_pedido, id_recurso) ==
    LET hit == {r \in d[table] : r.documento = id_pedido /\ r.recurso = id_recurso}
        del == [rowcount |-> Cardinality(hit), db |-> [d EXCEPT ![table] = @ \ hit]]
    IN  IF del.rowcount = 0
        THEN [db |-> Rollback(d, del.db), status |-> 404, detail |-> "requisito",
              rolled |-> TRUE, committed |-> FALSE]
        ELSE [db |-> Commit(d, del.db), status |-> 200, detail |-> "",
              rolled |-> FALSE, committed |-> TRUE]

DeleteRequisitoFisico(p, id_pedido, id_recurso) ==
    /\ pc[p] = "idle"
    /\ Returns(p, "delete_requisito_fisico",
               [NoArgs EXCEPT !.id_pedido = id_pedido, !.id_recurso = id_recurso],
               delete_requisito(db, "DOC_TIPORECURSO", id_pedido, id_recurso),
               "closed", NoId)

DeleteRequisitoHumano(p, id_pedido, id_recurso) ==
    /\ pc[p] = "idle"
    /\ Returns(p, "delete_requisito_humano",
               [NoArgs EXCEPT !.id_pedido = id_pedido, !.id_recurso = id_recurso],
               delete_requisito(db, "DOC_RH", id_pedido, id_recurso),
               "closed", NoId)

\* RequisitoItem: one unit of a resource.
Line(id) == [id |-> id, qtd |-> 1]

\* RequisitosCreate
RequisitosOf(tr, rh) == [tipos_recurso |-> tr, recursos_humanos |-> rh]

\* The bodies POST requisitos is called with; t1, t2 and h1 are registered,
\* t9 and h9 are not.  A physical line repeated in the list before a valid
\* human line; two physical lines in either order; a physical line that
\* names no registered type after a valid one; a human line that names no
\* registered profession after a valid physical line; a human line alone.
Requisitos ==
    { RequisitosOf(<<Line("t1"), Line("t1")>>, <<Line("h1")>>),
      RequisitosOf(<<Line("t1"), Line("t2")>>, <<>>),
      RequisitosOf(<<Line("t2"), Line("t1")>>, <<>>),
      RequisitosOf(<<Line("t1"), Line("t9")>>, <<>>),
      RequisitosOf(<<Line("t1")>>, <<Line("h9")>>),
      RequisitosOf(<<>>, <<Line("h1")>>) }

InitReq ==
    /\ \E seed \in ({ {}, {[documento |-> MakeId(2024, 7), recurso |-> "t2", qtd |-> 2]} }) :
          db = [EmptyDb EXCEPT
                  !.USUARIO = {[ndoc |-> "u1", email |-> "u1@x"]},
                  !.ANALISTA = {"a1"}, !.GERENTE = {"g1"},
                  !.PEDIDO = {SeedRow(<<2024, 7>>)},
                  !.TIPORECURSOFISICO = Tipos,
                  !.RECURSOHUMANO = {[nomeprofissao |-> "h1"]},
                  !.DOCUMENTODEREQUISITO = {r.documento : r \in seed},
                  !.DOC_TIPORECURSO = seed]
    /\ today = FirstDay
    /\ pc = [p \in Procs |-> "idle"]
    /\ loc = [p \in Procs |-> NoLoc]
    /\ last = NoOutcome

NextReq ==
    \/ \E p \in Procs, id \in ReqPedidoIds, requisitos \in Requisitos :
          AddRequisitosSelectPedido(p, id, requisitos)
    \/ \E p \in Procs : AddRequisitosInsertDocumento(p)
    \/ \E p \in Procs : AddRequisitosSelectTipo(p)
    \/ \E p \in Procs : AddRequisitosInsertTipo(p)
    \/ \E p \in Procs : AddRequisitosSelectProfissao(p)
    \/ \E p \in Procs : AddRequisitosInsertProfissao(p)
    \/ \E p \in Procs : AddRequisitosDeadlock(p)
    \/ \E p \in Procs : AddRequisitosCommit(p)
    \/ \E p \in Procs, t \in {"t1", "t2"} :
          DeleteRequisitoFisico(p, MakeId(2024, 7), t)
    \/ \E p \in Procs : DeleteRequisitoHumano(p, MakeId(2024, 7), "h1")
    \/ \E p \in Procs : DeleteTipoRecursoSelectTipo(p, "t1")
    \/ \E p \in Procs : DeleteTipoRecursoDelete(p)

SpecReq == InitReq /\ [][NextReq]_vars

----------------------------------------------------------------------------
(* The GET endpoints *)

\* What a read leaves behind: the store as it was, nothing rolled back or
\* committed.
ReadResult(d, status, detail) ==
    [db |-> d, status |-> status, detail |-> detail,
     rolled |-> FALSE, committed |-> FALSE]

\* The connection of a read that closes it as the last statement of its try
\* block and has no finally clause: a failure of the store (fault) jumps to
\* the except clause, which raises the 500 with the connection still open.
ClosedInTry(fault) == IF fault THEN "open" ELSE "closed"

\* The status of a read: 500 when the store fails under it.
ReadStatus(fault) == IF fault THEN 500 ELSE 200

\* GET /users
get_users(d, fault) == ReadResult(d, ReadStatus(fault), "")

\* GET /analysts
get_analysts(d, fault) == ReadResult(d, ReadStatus(fault), "")

\* GET /managers: the cursor is closed, the connection is not, on any path.
get_managers(d, fault) == ReadResult(d, ReadStatus(fault), "")

\* GET /items
get_items(d, fault) == ReadResult(d, ReadStatus(fault), "")

\* GET /tipos-recurso
get_tipos_recurso(d, fault) == ReadResult(d, ReadStatus(fault), "")

\* GET /armazens
get_armazens(d, fault) == ReadResult(d, ReadStatus(fault), "")

\* GET /pedidos/{id_pedido}/requisitos, its second query; the finally clause
\* closes the connection.
get_requisitos(d, id_pedido, fault) == ReadResult(d, ReadStatus(fault), "")

\* GET /pedidos: the finally clause closes the connection.
get_pedidos(d, fault) == ReadResult(d, ReadStatus(fault), "")

ReadArgs(fault) == [NoArgs EXCEPT !.fault = fault]

\* A read that is one statement, on a free worker.
Reads(p, op, args, r, conn) ==
    /\ pc[p] = "idle"
    /\ Returns(p, op, args, r, conn, NoId)

GetUsers(p, fault) ==
    Reads(p, "get_users", ReadArgs(fault), get_users(db, fault), ClosedInTry(fault))

GetAnalysts(p, fault) ==
    Reads(p, "get_analysts", ReadArgs(fault), get_analysts(db, fault),
          ClosedInTry(fault))

\* get_managers closes its cursor and never its connection.
GetManagers(p, fault) ==
    Reads(p, "get_managers", ReadArgs(fault), get_managers(db, fault),
          "open")

GetItems(p, fault) ==
    Reads(p, "get_items", ReadArgs(fault), get_items(db, fault), ClosedInTry(fault))

GetTiposRecurso(p, fault) ==
    Reads(p, "get_tipos_recurso", ReadArgs(fault), get_tipos_recurso(db, fault),
          ClosedInTry(fault))

GetArmazens(p, fault) ==
    Reads(p, "get_armazens", ReadArgs(fault), get_armazens(db, fault),
          ClosedInTry(fault))

GetPedidos(p, fault) ==
    Reads(p, "get_pedidos", ReadArgs(fault), get_pedidos(db, fault),
          "closed")

\* GET /pedidos/{id_pedido}/requisitos to the SELECT of the requirement
\* document: the store fails under it (500), or the request has no document
\* and the handler returns an empty list, or the handler goes on.
GetRequisitosSelectDocumento(p, id_pedido, fault) ==
    /\ pc[p] = "idle"
    /\ LET args == [ReadArgs(fault) EXCEPT !.id_pedido = id_pedido]
       IN  IF fault
           THEN Returns(p, "get_requisitos", args, ReadResult(db, 500, ""),
                        "closed", NoId)
           ELSE IF {x \in db.DOCUMENTODEREQUISITO : x = id_pedido} = {}
           THEN Returns(p, "get_requisitos", args, ReadResult(db, 200, "sem documento"),
                        "closed", NoId)
           ELSE Goes(p, "get_requisitos/requisitos", [NoLoc EXCEPT !.args = args])

\* get_requisitos_por_documento, to the return of the handler.
GetRequisitosSelectRequisitos(p) ==
    /\ pc[p] = "get_requisitos/requisitos"
    /\ Returns(p, "get_requisitos", loc[p].args,
               get_requisitos(db, loc[p].args.id_pedido, FALSE),
               "closed", NoId)

\* The reads run against the stores InitPedido describes, one of which
\* holds a requirement document.
InitRead ==
    /\ \E A \in {{}, {"a1"}, {"a1", "a2"}}, G \in {{}, {"g1"}}, seed \in SeedPedidos :
          db = [EmptyDb EXCEPT
                  !.USUARIO = {[ndoc |-> "u1", email |-> "u1@x"]},
                  !.ANALISTA = A, !.GERENTE = G,
                  !.PEDIDO = IF A = {} \/ G = {} THEN {}
                             ELSE {SeedRow(s) : s \in seed},
                  !.DOCUMENTODEREQUISITO =
                      IF A = {} \/ G = {} THEN {}
                      ELSE {MakeId(s[1], s[2]) : s \in seed \cap {<<2024, 7>>}}]
    /\ today = FirstDay
    /\ pc = [p \in Procs |-> "idle"]
    /\ loc = [p \in Procs |-> NoLoc]
    /\ last = NoOutcome

NextRead ==
    \/ \E p \in Procs, fault \in BOOLEAN : GetManagers(p, fault)
    \/ \E p \in Procs, fault \in BOOLEAN : GetUsers(p, fault)
    \/ \E p \in Procs, fault \in BOOLEAN : GetAnalysts(p, fault)
    \/ \E p \in Procs, fault \in BOOLEAN : GetItems(p, fault)
    \/ \E p \in Procs, fault \in BOOLEAN : GetTiposRecurso(p, fault)
    \/ \E p \in Procs, fault \in BOOLEAN : GetArmazens(p, fault)
    \/ \E p \in Procs, id \in ReqPedidoIds, fault \in BOOLEAN :
          GetRequisitosSelectDocumento(p, id, fault)
    \/ \E p \in Procs : GetRequisitosSelectRequisitos(p)
    \/ \E p \in Procs, fault \in BOOLEAN : GetPedidos(p, fault)

SpecRead == InitRead /\ [][NextRead]_vars

----------------------------------------------------------------------------
(* GET /items with its filters *)

\* The lower-case form of a character, as ILIKE folds it: every letter has
\* one, any other character is left as it is.
ToLower(ch) ==
    LET upper == <<"A", "B", "C", "D", "E", "F", "G", "H", "I", "J", "K", "L", "M",
                   "N", "O", "P", "Q", "R", "S", "T", "U", "V", "W", "X", "Y", "Z">>
        lower == <<"a", "b", "c", "d", "e", "f", "g", "h", "i", "j", "k", "l", "m",
                   "n", "o", "p", "q", "r", "s", "t", "u", "v", "w", "x", "y", "z">>
    IN  IF \E k \in DOMAIN upper : upper[k] = ch
        THEN lower[CHOOSE k \in DOMAIN upper : upper[k] = ch]
        ELSE ch

RECURSIVE LikeMatch(_, _)
\* s ILIKE pat: "%" stands for any run of characters, "_" for any one
\* character, a backslash takes the next character literally, and any other
\* character stands for itself in either case.
LikeMatch(s, pat) ==
    IF pat = <<>> THEN s = <<>>
    ELSE IF Head(pat) = "%"
    THEN LikeMatch(s, Tail(pat)) \/ (s # <<>> /\ LikeMatch(Tail(s), pat))
    ELSE IF Head(pat) = "_"
    THEN s # <<>> /\ LikeMatch(Tail(s), Tail(pat))
    ELSE IF Head(pat) = "\\" /\ Len(pat) >= 2
    THEN /\ s # <<>>
         /\ ToLower(Head(s)) = ToLower(pat[2])
         /\ LikeMatch(Tail(s), Tail(Tail(pat)))
    ELSE /\ s # <<>>
         /\ ToLower(Head(s)) = ToLower(Head(pat))
         /\ LikeMatch(Tail(s), Tail(pat))

\* filter_items.sql: each item joined with its resource type (trf) and, when
\* it has one, its warehouse (a).
filter_items(d) ==
    { [ i |-> item, trf |-> item.tiporecursofisico,
        a |-> IF SelectArmazem(d, item.armazem) # {} THEN item.armazem ELSE "" ] :
        item \in {x \in d.ITEM : SelectTipo(d, x.tiporecursofisico) # {}} }

\* Whether a filter parameter adds a clause to the WHERE.
Active(v) == v # "" /\ v # "all"

\* GET /items answered with the patrimony numbers of the rows it returns.
ListItems(p, q) ==
    /\ pc[p] = "idle"
    /\ db' = db
    /\ LET rows == { r \in filter_items(db) :
                       /\ Active(q.tiporecursofisico) => r.trf = q.tiporecursofisico
                       /\ Active(q.statusitem) => r.i.statusitem = q.statusitem
                       /\ Active(q.qualidade) => r.i.qualidade = q.qualidade
                       /\ Active(q.armazem) => r.a = q.armazem
                       /\ q.search # <<>> =>
                             LikeMatch(r.i.nropatrimonio, <<"%">> \o q.search \o <<"%">>) }
       IN  last' = [Outcome("get_items", [NoArgs EXCEPT !.query = q],
                            200, "", FALSE, FALSE, "closed", NoId)
                       EXCEPT !.rows = {r.i.nropatrimonio : r \in rows}]
    /\ UNCHANGED <<today, pc, loc>>

InitList ==
    /\ \E stored \in SUBSET
              { [NoItem EXCEPT !.nropatrimonio = <<"A", "b", "1">>,
                               !.statusitem = "Disponível",
                               !.qualidade = "Bom", !.tamanho = 1,
                               !.tiporecursofisico = "t1", !.armazem = "w1"],
                [NoItem EXCEPT !.nropatrimonio = <<"a", "B", "2">>,
                               !.statusitem = "Em Uso",
                               !.qualidade = "Bom", !.tamanho = 1,
                               !.tiporecursofisico = "t2", !.armazem = ""],
                [NoItem EXCEPT !.nropatrimonio = <<"c", "_", "3">>,
                               !.statusitem = "Disponível",
                               !.qualidade = "Ruim", !.tamanho = 1,
                               !.tiporecursofisico = "t1", !.armazem = "w1"],
                [NoItem EXCEPT !.nropatrimonio = <<"x", "y", "Z">>,
                               !.statusitem = "Disponível",
                               !.qualidade = "Bom", !.tamanho = 1,
                               !.tiporecursofisico = "t2", !.armazem = "w1"] } :
          db = [EmptyDb EXCEPT
                  !.TIPORECURSOFISICO = {[idtiporecurso |-> "t1", nome |-> "n1"],
                                         [idtiporecurso |-> "t2", nome |-> "n2"]},
                  !.ARMAZEM = {[idarmazem |-> "w1", endereco |-> "r1"]},
                  !.ITEM = stored]
    /\ today = FirstDay
    /\ pc = [p \in Procs |-> "idle"]
    /\ loc = [p \in Procs |-> NoLoc]
    /\ last = NoOutcome

NextList ==
    \E p \in Procs,
       q \in [ search : { <<>>, <<"b">>, <<"A", "B">>, <<"b", "2">>, <<"Y", "Z">>,
                          <<"q">>, <<"_">>, <<"%">> },
               tiporecursofisico : {"", "all", "t1"},
               statusitem : {"", "Disponível"}, qualidade : {"", "all", "Bom"},
               tamanho : {""}, armazem : {"", "w1"} ] :
        ListItems(p, q)

SpecList == InitList /\ [][NextList]_vars

----------------------------------------------------------------------------
----------------------------------------------------------------------------
(* Properties of POST /pedidos *)

\* The numeric suffixes of the stored ids of a year.
SuffixesOf(d, year) ==
    {ParseInt(r.idpedido.seq).value : r \in {x \in d.PEDIDO : x.idpedido.year = year}}

MaxOf(S) == CHOOSE n \in S : \A m \in S : m <= n

\* n as exactly three decimal digits (n < 1000).
ThreeDigits(n) == <<n \div 100, (n \div 10) % 10, n % 10>>

\* A step in which worker p's create_pedido reads the last id and computes
\* its candidate.
ReadsLastId(p) ==
    pc[p] = "create_pedido/last_id" /\ pc'[p] = "create_pedido/datasubmissao"

\* C1: the year of the candidate id of CreateRequest is the year the clock
\* shows when the handler reads it, before it reads the last id; the
\* candidate is PED-{year}-001 when the store holds no id of that year, and
\* PED-{year}-(N+1), in three digits, when the highest suffix of the year is
\* N < 999, whatever the gaps below N and whatever ids other years hold.
C1_NextId ==
    [][\A p \in Procs :
          /\ CreatePedidoCurrentYear(p) => loc'[p].current_year = today.year
          /\ CreatePedidoSelectLastId(p) =>
              LET year == loc[p].current_year
                  nums == SuffixesOf(db, year)
              IN  /\ (nums = {} \/ MaxOf(nums) < 999) => ReadsLastId(p)
                  /\ ReadsLastId(p) => loc'[p].idpedido.year = year
                  /\ nums = {} => loc'[p].idpedido.seq = <<0, 0, 1>>
                  /\ (nums # {} /\ MaxOf(nums) < 999) =>
                        loc'[p].idpedido.seq = ThreeDigits(MaxOf(nums) + 1)]_vars

\* C1 witness: a request stored as PED-2024-008 next to PED-2024-003,
\* PED-2024-007 and an id of 2023.
C1_Witness ==
    /\ last.op = "create_pedido" /\ last.status = 200
    /\ last.ret = [year |-> 2024, seq |-> <<0, 0, 8>>]
    /\ {[year |-> 2024, seq |-> <<0, 0, 3>>], [year |-> 2024, seq |-> <<0, 0, 7>>],
        [year |-> 2023, seq |-> <<0, 5, 0>>], [year |-> 2024, seq |-> <<0, 0, 8>>]}
          \subseteq {r.idpedido : r \in db.PEDIDO}

\* C2: every candidate id has a numeric suffix strictly greater than the
\* suffix of every id of the year already stored, also past 999, so no
\* candidate equals a stored id.
C2_Monotonic ==
    [][\A p \in Procs :
          ReadsLastId(p) =>
              /\ \A n \in SuffixesOf(db, loc[p].current_year) :
                    n < ParseInt(loc'[p].idpedido.seq).value
              /\ SelectPedido(db, loc'[p].idpedido) = {}]_vars

\* No two stored requests share an id.
UniquePedidoIds == \A r1, r2 \in db.PEDIDO : r1.idpedido = r2.idpedido => r1 = r2

\* C3: two CreateRequest calls that read the same year off the clock and
\* the last id before either inserts hold the same candidate; the insert of a candidate that is already stored
\* is rejected: the call ends with an error, rolled back, uncommitted, the
\* store unchanged and the handler finished (no second attempt); no two
\* stored requests ever share an id.
C3_CollidingInsert ==
    /\ []UniquePedidoIds
    /\ [][\A p \in Procs :
             /\ \A q \in Procs \ {p} :
                   ( ReadsLastId(p)
                     /\ pc[q] \in {"create_pedido/datasubmissao", "create_pedido/insert"}
                     /\ loc[q].current_year = loc[p].current_year
                     /\ SelectPedido(db, loc[q].idpedido) = {} )
                   => loc'[p].idpedido = loc[q].idpedido
             /\ ( CreatePedidoInsert(p) /\ SelectPedido(db, loc[p].idpedido) # {} )
                   => /\ last'.op = "create_pedido" /\ last'.status = 500
                      /\ last'.rolled /\ ~last'.committed
                      /\ db' = db /\ pc'[p] = "idle"]_vars

\* C3 witness: a CreateRequest rejected by the store although every stored
\* suffix is below 999: the candidate was taken by the other worker between
\* the read and the insert.
C3_Witness ==
    /\ last.op = "create_pedido" /\ last.status = 500 /\ last.detail = "integrity"
    /\ \A r \in db.PEDIDO : ParseInt(r.idpedido.seq).value < 999

\* C10: CreateRequest looks its user up first and ends 404 for a user that
\* is not stored, also when no staff is registered; for a stored user it
\* ends 500 when no analyst, or no manager, is registered; in each case the
\* store is unchanged and the call is over.
C10_Rejected ==
    [][\A p \in Procs :
          /\ CreatePedidoSelectUsuario(p) =>
                LET u == loc[p].args.pedido.usuario
                IN  /\ db' = db
                    /\ IF SelectUsuario(db, u) = {}
                       THEN /\ last'.op = "create_pedido"
                            /\ last'.args.pedido.usuario = u
                            /\ last'.status = 404 /\ pc'[p] = "idle"
                       ELSE pc'[p] = "create_pedido/analista" /\ last' = last
          /\ (CreatePedidoSelectAnalista(p) /\ db.ANALISTA = {}) =>
                /\ last'.op = "create_pedido" /\ last'.args = loc[p].args
                /\ last'.status = 500 /\ db' = db /\ pc'[p] = "idle"
          /\ (CreatePedidoSelectGerente(p) /\ db.GERENTE = {}) =>
                /\ last'.op = "create_pedido" /\ last'.args = loc[p].args
                /\ last'.status = 500 /\ db' = db /\ pc'[p] = "idle"]_vars

\* C10 witness: a missing user reported as not-found while no analyst is
\* registered.
C10_Witness ==
    /\ last.op = "create_pedido" /\ last.status = 404
    /\ SelectUsuario(db, last.args.pedido.usuario) = {}
    /\ db.ANALISTA = {} /\ db.PEDIDO = {}

\* What a successful insert step of worker p's CreateRequest leaves, but for
\* the date: exactly one new row, under the id returned to the caller,
\* "Em Análise", of the supplied user, with the registered analyst and manager
\* the auto-assignment queries selected, and no other row of the store
\* changed.
CreatedRow(p, row) ==
    /\ row \notin db.PEDIDO
    /\ db' = [db EXCEPT !.PEDIDO = db.PEDIDO \cup {row}]
    /\ row.idpedido = last'.ret
    /\ row.status = "Em Análise"
    /\ row.usuario = last'.args.pedido.usuario
    /\ row.analista = loc[p].analista /\ row.analista \in db.ANALISTA
    /\ row.gerente = loc[p].gerente /\ row.gerente \in db.GERENTE

\* C11 as stated: a successful CreateRequest adds exactly one row to the
\* requests: its id is the id returned to the caller, its status is
\* "Em Análise", its submission date is the current date, its requester is
\* the supplied user, its analyst and manager are the registered staff
\* members the auto-assignment queries selected; no other row of the store
\* changes.
C11_CreatedToday ==
    [][\A p \in Procs :
          (CreatePedidoInsert(p) /\ last'.status = 200) =>
              \E row \in db'.PEDIDO :
                  CreatedRow(p, row) /\ row.datasubmissao = today]_vars

\* The date a handler holds for its row is never later than the clock's.
DateReadNotLater ==
    \A p \in Procs :
        pc[p] = "create_pedido/insert" => ~DateLess(today, loc[p].datasubmissao)

\* C11 amended: a successful CreateRequest adds exactly one row to the
\* requests, with the id returned, "Em Análise", the supplied user and the
\* selected registered staff, no other row changed; its submission date is
\* the date the clock showed when the handler read it, after the id was
\* computed and before the insert was sent: never later than the date of the
\* insert, and earlier when midnight falls in between.
C11_Created ==
    /\ []DateReadNotLater
    /\ [][\A p \in Procs :
             /\ CreatePedidoDataSubmissao(p) => loc'[p].datasubmissao = today
             /\ (CreatePedidoInsert(p) /\ last'.status = 200) =>
                   \E row \in db'.PEDIDO :
                       CreatedRow(p, row) /\ row.datasubmissao = loc[p].datasubmissao]_vars

\* C11 witness: a request whose handler read the date on 31 December 2024 and
\* inserted after midnight: answered on 1 January 2025, stored under the
\* returned id with the date of the day before, "Em Análise" and registered
\* staff.
C11_Witness ==
    /\ last.op = "create_pedido" /\ last.status = 200
    /\ today = LastDay
    /\ \E row \in db.PEDIDO :
          /\ row.idpedido = last.ret
          /\ row.datasubmissao = FirstDay
          /\ row.status = "Em Análise"
          /\ row.usuario = last.args.pedido.usuario
          /\ row.analista \in db.ANALISTA /\ row.gerente \in db.GERENTE

\* C16: a request whose proposed start date is present and earlier than
\* the current date is rejected; one with both dates and the end earlier than
\* the start is rejected; one with the start today or later and the end equal
\* to or later than the start is accepted; absent dates are not checked, so
\* an end date alone is accepted even in the past; a rejected request never
\* reaches the store: the handler is not called for it, and the body the
\* handler looks the user up for has no end date before its start date.
C16_PedidoDates ==
    [][\A p \in Procs, pedido \in PedidoBodies :
          /\ ( /\ CreatePedidoSelectUsuario(p) /\ loc[p].args.pedido = pedido
               /\ pedido.datainicioproposto # NoDate
               /\ pedido.datafimproposto # NoDate ) =>
                ~DateLess(pedido.datafimproposto, pedido.datainicioproposto)
          /\ PostPedidos(p, pedido) =>
              LET inicio == pedido.datainicioproposto
                  fim == pedido.datafimproposto
                  rejected == /\ last'.op = "create_pedido" /\ last'.status = 422
                              /\ last'.args.pedido = pedido /\ pc'[p] = "idle"
                  reached == /\ pc'[p] = "create_pedido/usuario"
                             /\ loc'[p].args.pedido = pedido
              IN  /\ (inicio # NoDate /\ DateLess(inicio, today)) => rejected
                  /\ (inicio # NoDate /\ fim # NoDate /\ DateLess(fim, inicio)) =>
                        rejected
                  /\ ( /\ inicio # NoDate /\ ~DateLess(inicio, today)
                       /\ fim # NoDate /\ ~DateLess(fim, inicio) ) => ~rejected
                  /\ ( /\ inicio # NoDate /\ ~DateLess(inicio, today)
                       /\ fim = NoDate ) => ~rejected
                  /\ inicio = NoDate => ~rejected
                  /\ rejected => (~reached /\ last'.conn = "none" /\ db' = db)
                  /\ ~rejected => reached]_vars

\* C16 witness: on 1 January 2026 a request proposing to start on
\* 31 December 2025 was rejected for its start date.
C16_Witness ==
    /\ last.op = "create_pedido" /\ last.status = 422 /\ last.detail = "inicio"
    /\ today = [year |-> 2026, month |-> 1, day |-> 1]
    /\ last.args.pedido.datainicioproposto = [year |-> 2025, month |-> 12, day |-> 31]
    /\ last.conn = "none"

\* C12: UpdateRequestStatus answers not-found and leaves every request as it
\* was when the supplied analyst is not registered, when the supplied manager
\* is not registered, or when its update matches no request; otherwise it
\* commits, and afterwards exactly the request with that id carries the
\* supplied status, analyst and manager, every other row being unchanged.
C12_UpdateStatus ==
    [][\A p \in Procs :
          LET id == loc[p].args.id_pedido
              su == loc[p].args.status_update
              hit == SelectPedido(db, id)
              notfound == /\ last'.op = "update_pedido_status"
                          /\ last'.status = 404 /\ ~last'.committed
                          /\ db' = db /\ pc'[p] = "idle"
          IN  /\ \A i \in StatusPedidoIds, s \in StatusUpdates :
                    ( /\ UpdatePedidoStatusSelectAnalista(p, i, s)
                      /\ s.analista \notin db.ANALISTA )
                    => (notfound /\ last'.args.id_pedido = i)
              /\ (UpdatePedidoStatusSelectGerente(p) /\ su.gerente \notin db.GERENTE)
                    => notfound
              /\ UpdatePedidoStatusUpdate(p) =>
                    /\ su.analista \in db.ANALISTA /\ su.gerente \in db.GERENTE
                    /\ IF hit = {}
                       THEN notfound
                       ELSE /\ last'.status = 200
                            /\ last'.committed
                            /\ \E r \in hit :
                                  db' = [db EXCEPT !.PEDIDO =
                                            (db.PEDIDO \ {r}) \cup
                                            {[r EXCEPT !.status = su.status,
                                                       !.analista = su.analista,
                                                       !.gerente = su.gerente]}]
                            /\ \A r \in db'.PEDIDO :
                                  r.idpedido = id =>
                                      /\ r.status = su.status
                                      /\ r.analista = su.analista
                                      /\ r.gerente = su.gerente]_vars

\* C12 witness: of two stored requests one was refused and handed to the
\* analyst "a2", the other is still "Em Análise".
C12_Witness ==
    /\ last.op = "update_pedido_status" /\ last.status = 200
    /\ last.args.status_update.status = "Recusado"
    /\ \E r, o \in db.PEDIDO :
          /\ r.idpedido = last.args.id_pedido
          /\ r.status = "Recusado" /\ r.analista = "a2"
          /\ o.idpedido # r.idpedido /\ o.status = "Em Análise"

\* C19: a request enters the store in "Em Análise"; its status changes only
\* in a step of UpdateRequestStatus on its id, and only away from
\* "Em Análise": a request that has left "Em Análise" is never moved to
\* another status nor back.
C19_StatusTransitions ==
    [][/\ \A n \in db'.PEDIDO :
             SelectPedido(db, n.idpedido) = {} => n.status = "Em Análise"
       /\ \A r \in db.PEDIDO, n \in db'.PEDIDO :
             (r.idpedido = n.idpedido /\ r.status # n.status) =>
                 /\ last'.op = "update_pedido_status"
                 /\ last'.args.id_pedido = r.idpedido
                 /\ \E p \in Procs : UpdatePedidoStatusUpdate(p)
                 /\ r.status = "Em Análise"]_vars

----------------------------------------------------------------------------
(* Properties of POST /usuarios and of the validators *)

\* The number of digits in a string, a digit being a decimal digit of any
\* script.
CountDigits(s) == Cardinality({i \in DOMAIN s : s[i] \in DigitChars})

\* What C14 asks of a record: CPF or CNPJ; a CPF with 11 digits, a name and,
\* when an RG is supplied, 7 to 9 digits in it; a CNPJ with 14 digits and a
\* company name.
WellFormedUsuario(u) ==
    /\ u.tipodoc \in {"CPF", "CNPJ"}
    /\ u.tipodoc = "CPF" =>
          /\ CountDigits(u.ndoc) = 11
          /\ u.nome # ""
          /\ u.rg # <<>> => CountDigits(u.rg) \in 7..9
    /\ u.tipodoc = "CNPJ" =>
          /\ CountDigits(u.ndoc) = 14
          /\ u.razaosocial # ""

\* C14: user validation accepts a record only if its document type is CPF
\* or CNPJ, a CPF has exactly 11 digits after stripping non-digits and a
\* non-empty name, a CNPJ exactly 14 digits and a non-empty company name, and
\* a supplied RG of a CPF has 7 to 9 digits after stripping; a record
\* violating one of these is rejected with a validation error before any
\* storage access.  A digit is a decimal digit of any script, the characters
\* the stripping keeps.
C14_UsuarioValidated ==
    [][\A p \in Procs :
          LET called == pc'[p] = "create_usuario/ndoc"
              u == IF called THEN loc'[p].args.body ELSE last'.args.body
          IN  /\ PostUsuarios(p, u) =>
                    /\ ~WellFormedUsuario(u) =>
                          /\ last'.op = "create_usuario" /\ last'.status = 422
                          /\ last'.conn = "none"
                          /\ db' = db /\ ~called
                    /\ called => WellFormedUsuario(u)
              /\ CreateUsuarioSelectNdoc(p) => WellFormedUsuario(loc[p].args.body)]_vars

\* C14 witness: a CPF typed in eleven characters of which eight are digits
\* was rejected for its digit count.
C14_Witness ==
    /\ last.op = "create_usuario" /\ last.status = 422 /\ last.detail = "cpf"
    /\ last.args.body.tipodoc = "CPF"
    /\ Len(last.args.body.ndoc) = 11
    /\ CountDigits(last.args.body.ndoc) = 8

\* The day eighteen years before t; for 29 February of a year whose
\* eighteenth predecessor is not a leap year, 28 February.
EighteenYearsBefore(t) ==
    LET y == t.year - 18
    IN  [year |-> y, month |-> t.month,
         day |-> IF t.day > DaysInMonth(y, t.month) THEN DaysInMonth(y, t.month)
                 ELSE t.day]

\* C15: of the records that are otherwise well formed, the one born one day
\* after today minus 18 years (eighteenth birthday tomorrow) is rejected, the
\* ones born exactly 18 years before today or earlier are accepted; the age
\* compared with 18 is the difference of the years, less one when today's
\* (month, day) precedes the birth (month, day); a record without a birth date
\* is not rejected for its age.
C15_AgeBoundary ==
    [][\A p \in Procs :
          LET called == pc'[p] = "create_usuario/ndoc"
              u == IF called THEN loc'[p].args.body ELSE last'.args.body
              born == u.datanasc
              limit == EighteenYearsBefore(today)
              years == today.year - born.year -
                          (IF MonthDayLess(today, born) THEN 1 ELSE 0)
              rejected == /\ last'.op = "create_usuario" /\ last'.status = 422
                          /\ last'.detail = "idade" /\ ~called
          IN  ( PostUsuarios(p, u) /\ WellFormedUsuario(u) )
              => /\ born = NoDate => called
                 /\ born # NoDate =>
                       /\ born = NextDay(limit) => rejected
                       /\ (born = limit \/ DateLess(born, limit)) => called
                       /\ rejected <=> years < 18
                       /\ called <=> years >= 18]_vars

\* C15 witness: on 29 February 2024 a person born on 1 March 2006, whose
\* eighteenth birthday is the next day, was rejected for their age.
C15_Witness ==
    /\ last.op = "create_usuario" /\ last.status = 422 /\ last.detail = "idade"
    /\ today = [year |-> 2024, month |-> 2, day |-> 29]
    /\ last.args.body.datanasc = NextDay(EighteenYearsBefore(today))
    /\ last.args.body.datanasc = [year |-> 2006, month |-> 3, day |-> 1]

\* No two stored users share a document number or an e-mail.
UniqueUsuarios ==
    \A u, v \in db.USUARIO : (u.ndoc = v.ndoc \/ u.email = v.email) => u = v

\* C20: CreateUser never leaves two stored users with the same document
\* number or the same e-mail, and a CreateUser that returns while its document
\* number or e-mail is stored is answered 409 and inserts nothing, whether
\* the pre-check found the duplicate or the store refused the insert of a
\* call that had passed the pre-check.
C20_UsuarioConflict ==
    /\ []UniqueUsuarios
    /\ [][\A p \in Procs :
            LET u == last'.args.body
            IN  ( /\ last'.op = "create_usuario"
                  /\ pc'[p] = "idle"
                  /\ \/ CreateUsuarioSelectNdoc(p)
                     \/ CreateUsuarioSelectEmail(p)
                     \/ CreateUsuarioInsert(p)
                  /\ \/ SelectUsuario(db, u.ndoc) # {}
                     \/ SelectEmail(db, u.email) # {} )
                => (last'.status = 409 /\ db' = db)]_vars

----------------------------------------------------------------------------
(* Properties of POST /pedidos/{id_pedido}/requisitos *)

\* The statements of add_requisitos that follow its first.
AddRequisitosLabels ==
    { "add_requisitos/documento", "add_requisitos/tipo",
      "add_requisitos/doc_tiporecurso", "add_requisitos/profissao",
      "add_requisitos/doc_rh", "add_requisitos/commit" }

\* The line worker p's add_requisitos is at in a loop.
LineAt(p, table) == LinesOf(loc[p].args, table)[loc[p].i]

\* The line worker p's add_requisitos is at repeats a (document, resource)
\* that is stored or that the call has inserted.
Repeats(p, table) ==
    \E r \in View(db, loc[p].ins)[table] :
        r.documento = loc[p].args.id_pedido /\ r.recurso = LineAt(p, table).id

\* Worker p's add_requisitos ends with the given status, and neither the
\* store nor the worker holds anything of the call.
EndsWith(p, status) ==
    /\ last'.op = "add_requisitos" /\ last'.args = loc[p].args
    /\ last'.status = status /\ ~last'.committed
    /\ db' = db /\ pc'[p] = "idle" /\ loc'[p].ins = EmptyDb

\* C4: AddRequirements writes to the store in its commit alone, after both
\* loops; a line, physical or human, at any position, that names a resource
\* that is not registered ends the call 404, one that repeats a (document,
\* resource) ends it 409, and a call that ends with an error leaves the
\* store as it is: no line and no requirement document of the call remains.
C4_AtomicBatch ==
    [][\A p \in Procs :
          /\ (pc[p] \in AddRequisitosLabels /\ pc'[p] # pc[p]) =>
                /\ db' # db =>
                      /\ pc[p] = "add_requisitos/commit"
                      /\ last'.op = "add_requisitos" /\ last'.status = 200
                      /\ db' = View(db, loc[p].ins)
                /\ (pc'[p] = "idle" /\ last'.status # 200) =>
                      (db' = db /\ loc'[p].ins = EmptyDb)
                /\ pc'[p] # "idle" => last' = last
          /\ ( /\ AddRequisitosSelectTipo(p)
               /\ SelectRecurso(db, "DOC_TIPORECURSO", LineAt(p, "DOC_TIPORECURSO").id) = {} )
                => EndsWith(p, 404)
          /\ ( /\ AddRequisitosSelectProfissao(p)
               /\ SelectRecurso(db, "DOC_RH", LineAt(p, "DOC_RH").id) = {} )
                => EndsWith(p, 404)
          /\ (AddRequisitosInsertTipo(p) /\ Repeats(p, "DOC_TIPORECURSO"))
                => EndsWith(p, 409)
          /\ (AddRequisitosInsertProfissao(p) /\ Repeats(p, "DOC_RH"))
                => EndsWith(p, 409)]_vars

\* C4 witness: a call on a request without requirement document whose first
\* physical line and whose human line are valid and whose second physical
\* line repeats the first ended 409, and neither the document nor any line
\* is stored.
C4_Witness ==
    /\ last.op = "add_requisitos" /\ last.status = 409
    /\ Len(last.args.tipos_recurso) = 2
    /\ last.args.tipos_recurso[1].id = last.args.tipos_recurso[2].id
    /\ SelectRecurso(db, "DOC_TIPORECURSO", last.args.tipos_recurso[1].id) # {}
    /\ last.args.id_pedido \notin db.DOCUMENTODEREQUISITO
    /\ db.DOC_TIPORECURSO = {} /\ db.DOC_RH = {}

----------------------------------------------------------------------------
(* Properties of /items, /eventos, /alocacoes and of the connections *)

\* C5: DeleteItem of a stored item that an allocation references ends 409
\* and leaves the item and the allocations stored; of a stored item that no
\* allocation references it ends 200 and removes the item and nothing else;
\* after that the item is absent, and every existence lookup of its patrimony
\* number ends 404: that of a further DeleteItem, that of UpdateItem and that
\* of CreateAllocation.  (The two items of a run are stored at the start and
\* nothing creates an item, so one that is absent has been deleted.)
C5_DeleteItem ==
    [][\A p \in Procs :
          LET n == loc[p].args.nropatrimonio
              notfound(op) == /\ last'.op = op /\ last'.status = 404
                              /\ db' = db /\ pc'[p] = "idle"
          IN  /\ (DeleteItemDelete(p) /\ AlocacoesOf(db, n) # {}) =>
                    /\ last'.op = "delete_item" /\ last'.status = 409
                    /\ db' = db /\ SelectItem(db', n) # {}
              /\ (DeleteItemDelete(p) /\ AlocacoesOf(db, n) = {}) =>
                    /\ last'.op = "delete_item" /\ last'.status = 200
                    /\ db' = [db EXCEPT !.ITEM = @ \ SelectItem(db, n)]
                    /\ SelectItem(db', n) = {}
              /\ \A m \in {"i1", "i2"} :
                    SelectItem(db, m) = {} =>
                        /\ DeleteItemSelectItem(p, m) =>
                              (notfound("delete_item") /\ last'.args.nropatrimonio = m)
                        /\ (\E item \in {last'.args.update} :
                                UpdateItemSelectItem(p, m, item)) =>
                              (notfound("update_item") /\ last'.args.nropatrimonio = m)
                        /\ ( /\ CreateAlocacaoSelectItem(p)
                             /\ loc[p].args.alocacao.item_id = m ) =>
                              notfound("create_alocacao")]_vars

\* C6: CreateEvent for a request id that is not stored ends 404 and inserts
\* no event.
C6_EventoNotFound ==
    [][\A p \in Procs, e \in Eventos :
          (CreateEventoSelectPedido(p, e) /\ SelectPedido(db, e.id_pedido) = {})
              => (last'.status = 404 /\ db'.EVENTO = db.EVENTO)]_vars

\* Every stored allocation references a stored event and a stored item.
AlocacaoReferences ==
    \A a \in db.ALOCACAO :
        /\ SelectEvento(db, a.evento_nome, a.evento_data) # {}
        /\ SelectItem(db, a.item_id) # {}

\* C7: CreateAllocation for an event (name and start date) or an item that
\* is not stored ends 404 and inserts no allocation, and every stored
\* allocation references a stored event and a stored item.
C7_AlocacaoValidated ==
    /\ []AlocacaoReferences
    /\ [][\A p \in Procs :
             /\ \A a \in Alocacoes :
                   ( /\ CreateAlocacaoSelectEvento(p, a)
                     /\ SelectEvento(db, a.evento_nome, a.evento_data) = {} )
                   => (last'.status = 404 /\ db' = db)
             /\ ( /\ CreateAlocacaoSelectItem(p)
                  /\ SelectItem(db, loc[p].args.alocacao.item_id) = {} )
                   => (last'.status = 404 /\ db' = db)]_vars

\* C13: an event is created only from an approved request: whenever
\* CreateEvent inserts an event, the request it names has status "Aprovado"
\* at that moment; for a request in any other status no event is inserted.
C13_ApprovedOnly ==
    [][\A p \in Procs :
          (CreateEventoInsert(p) /\ db'.EVENTO # db.EVENTO)
              => \E r \in SelectPedido(db, loc[p].args.evento.id_pedido) :
                    r.status = "Aprovado"]_vars

\* C8: the connection of every operation that has returned is closed.
C8_ConnectionReleased == last.op # "none" => last.conn = "closed"

\* The operations that write.
WriteOps ==
    { "create_pedido", "create_usuario", "create_item", "update_item",
      "delete_item", "create_tipo_recurso", "delete_tipo_recurso",
      "add_requisitos", "delete_requisito_fisico", "delete_requisito_humano",
      "update_pedido_status", "create_evento", "create_alocacao" }

\* C9: a write operation that returned an error rolled its transaction back
\* and did not commit; one that returned success committed.
C9_RollbackBeforeError ==
    last.op \in WriteOps =>
        /\ last.status # 200 => (last.rolled /\ ~last.committed)
        /\ last.status = 200 => (last.committed /\ ~last.rolled)

\* t occurs in s as a substring, letters compared without their case.
ContainsIgnoringCase(s, t) ==
    \E k \in 0..(Len(s) - Len(t)) :
        \A j \in 1..Len(t) : ToLower(s[k + j]) = ToLower(t[j])

\* C17: ListItems returns exactly the stored items that satisfy every active
\* filter: resource type, status, quality and warehouse are active when
\* supplied, non-empty and not "all", and then require equality; a non-empty
\* search requires the patrimony number to contain the search text, case
\* ignored; with no active filter every item is returned.
C17_ListItems ==
    [][   LET q == last'.args.query
          IN  (last'.op = "get_items" /\ \E p \in Procs : ListItems(p, q)) =>
                  last'.rows =
                    { i.nropatrimonio : i \in
                        { x \in db.ITEM :
                            /\ Active(q.tiporecursofisico) =>
                                  x.tiporecursofisico = q.tiporecursofisico
                            /\ Active(q.statusitem) => x.statusitem = q.statusitem
                            /\ Active(q.qualidade) => x.qualidade = q.qualidade
                            /\ Active(q.armazem) => x.armazem = q.armazem
                            /\ q.search # <<>> =>
                                  ContainsIgnoringCase(x.nropatrimonio, q.search) } }]_vars

\* No two stored items share a patrimony number, and every stored item
\* references a stored resource type.
ItemIntegrity ==
    /\ \A i, j \in db.ITEM : i.nropatrimonio = j.nropatrimonio => i = j
    /\ \A i \in db.ITEM : SelectTipo(db, i.tiporecursofisico) # {}

\* C18: CreateItem answers 404 for a resource type that is not stored and
\* for a supplied warehouse that is not stored, 409 for a patrimony number
\* that is stored, and an error inserts nothing; it inserts its item only
\* while the resource type is stored, the warehouse, when supplied, is
\* stored and no stored item has the patrimony number; in every reachable
\* state no two items share a patrimony number and every item references a
\* stored resource type.
C18_ItemIntegrity ==
    /\ []ItemIntegrity
    /\ [][\A p \in Procs :
            LET item == loc[p].args.item
                ends(status) == /\ last'.op = "create_item" /\ last'.status = status
                                /\ db' = db /\ pc'[p] = "idle"
            IN  /\ \A i \in Items :
                      ( /\ CreateItemSelectTipo(p, i)
                        /\ SelectTipo(db, i.tiporecursofisico) = {} ) => ends(404)
                /\ (CreateItemSelectArmazem(p) /\ SelectArmazem(db, item.armazem) = {})
                      => ends(404)
                /\ (CreateItemSelectItem(p) /\ SelectItem(db, item.nropatrimonio) # {})
                      => ends(409)
                /\ CreateItemInsert(p) =>
                      /\ last'.status # 200 => db' = db
                      /\ db' # db =>
                            /\ SelectTipo(db, item.tiporecursofisico) # {}
                            /\ item.armazem # "" => SelectArmazem(db, item.armazem) # {}
                            /\ SelectItem(db, item.nropatrimonio) = {}
                            /\ db' = [db EXCEPT !.ITEM = @ \cup {item}]]_vars

\* C18 witness: a CreateItem that found its resource type "t1" was answered
\* 409: before it looked its patrimony number up, the type was deleted and
\* the number stored with the type "t2".
C18_Witness ==
    /\ last.op = "create_item" /\ last.status = 409
    /\ last.args.item.tiporecursofisico = "t1"
    /\ SelectTipo(db, "t1") = {}
    /\ \E i \in db.ITEM :
          /\ i.nropatrimonio = last.args.item.nropatrimonio
          /\ i.tiporecursofisico = "t2"

====
